---- MODULE Spec2Model ----
(***************************************************************************)
(* Volunteer Connect: the recommendation pipeline (recommendOpportunities, *)
(* getAIRecommendations, simpleRecommendations), the OpportunitiesPage     *)
(* effect that issues ranking requests, and the facet filter of the        *)
(* Opportunities page (filteredOpportunities).                             *)
(*                                                                         *)
(* JavaScript strings are sequences of one-character strings, so that      *)
(* toLowerCase, trim and includes are computed and not assumed.            *)
(***************************************************************************)
EXTENDS Integers, Sequences, FiniteSets, TLC

VARIABLES
  allOpportunities,   \* the catalog imported from ./data/opportunities
  profile,            \* the profile prop of the page: [interests, skills]
  \* one call of recommendOpportunities
  interestsArg,       \* its argument
  response,           \* what the remote ranking service does for that call
  outcome,            \* how the promise of that call settled
  \* OpportunitiesPage
  mounted,            \* the component is mounted
  requests,           \* the effect runs so far, each with its ignore flag
  recommended,        \* useState([])
  loading,            \* useState(true)
  error,              \* useState('')
  shownFrom,          \* history: the effect run whose result recommended holds
  \* Opportunities (the filter page)
  searchTerm,
  locationFilter,
  skillFilter,
  interestFilter,
  dateRange,          \* [start, end]
  timeZone,           \* hours the browser's local time is ahead of UTC
  \* Opportunities: favourites and the snackbar
  storage,            \* what localStorage holds under 'favorites'
  favMounted,         \* the component is mounted
  favorites,          \* useState(...), lines 34-41
  updates,            \* the ids of the setFavorites updaters not yet applied
  effectPending,      \* the [favorites] effect is scheduled and has not run
  snackbarMessage,    \* useState('')
  snackbarVisible,    \* useState(false)
  snackbarTimerRef,   \* useRef(null): 0 is null, else a timer id
  timers,             \* the timeouts set and neither fired nor cleared
  timerSeq,           \* the timeouts set so far; the next id is timerSeq + 1
  emitted,            \* history: what the updaters of the last render did
  hiddenBy,           \* history: the timer that last hid the snackbar
  loadedFrom,         \* history: the stored value read at the last mount
  loaded,             \* history: the favourites that mount started with
  \* App: the profile and its storage
  storedProfile,      \* what localStorage holds under 'userProfile'
  appMounted,         \* App is mounted
  appProfile,         \* useState(readProfileFromStorage): field name -> value
  profileEffectPending, \* the [profile] effect is scheduled and has not run
  loadRaised,         \* history: reading the stored profile raised an error
  readFrom,           \* history: the stored value read at the last mount
  \* QuizModal
  quizMounted,        \* the modal's component is mounted
  show,               \* the show prop: isModalOpen of the page
  quizInterests,      \* useState(""): the interests textarea
  quizSkills,         \* useState(""): the skills textarea
  isLoading,          \* useState(false)
  apiResponse,        \* useState(null)
  apiError,           \* useState(null): a message, "" when null
  request,            \* the fetch of /api/get-tags in flight, or NoRequest
  submissions,        \* history: the calls of handleSubmit so far
  replied,            \* history: what the service answered to the last one
  completed,          \* history: the calls of onComplete, each with its data
  renderThrew,        \* history: renderContent threw
  closedBy,           \* history: the handler that closed the modal last
  \* App: the route
  routeMounted,       \* App is mounted
  hash,               \* window.location.hash
  route,              \* useState(() => parseHashRoute())
  syncPending,        \* the mount effect of lines 137-147 has not run yet
  hashchanges,        \* the hashchange events queued and not yet dispatched
  \* the module-level catalog under the operations that read it
  catalogAtLoad,      \* history: allOpportunities as imported
  returned,           \* history: the array the last operation returned
  \* a second run of the Opportunities page on the same inputs
  favoritesOther,     \* its favorites
  \* Profile (the profile page with its two forms)
  profileFile,        \* which of the two files of src/ defines the component
  form,               \* its useState values: name, email, password, story,
                      \* interests, skills
  removed,            \* history: the tags removed since the form was filled
  lastSave            \* history: the last call of onSave

rankVars == <<interestsArg, response, outcome>>
pageVars == <<mounted, requests, recommended, loading, error, shownFrom>>
filterVars == <<searchTerm, locationFilter, skillFilter, interestFilter, dateRange, timeZone>>
favVars == <<storage, favMounted, favorites, updates, effectPending, snackbarMessage,
             snackbarVisible, snackbarTimerRef, timers, timerSeq, emitted, hiddenBy,
             loadedFrom, loaded>>
loadVars == <<storedProfile, appMounted, appProfile, profileEffectPending, loadRaised,
              readFrom>>
quizVars == <<quizMounted, show, quizInterests, quizSkills, isLoading, apiResponse,
              apiError, request, submissions, replied, completed, renderThrew, closedBy>>
routeVars == <<routeMounted, hash, route, syncPending, hashchanges>>
catalogVars == <<catalogAtLoad, returned>>
badgeVars == <<favoritesOther>>
formVars == <<profileFile, form, removed, lastSave>>
extraVars == <<catalogVars, badgeVars, formVars>>
shellVars == <<favVars, loadVars, quizVars, routeVars, extraVars>>
vars == <<allOpportunities, profile, rankVars, pageVars, filterVars, shellVars>>

(***************************************************************************)
(* Bounds of the model.                                                    *)
(***************************************************************************)
MaxCatalog == 3         \* catalog length, calls with a failing or short response
MaxInterests == 2       \* interests of a profile
MaxDigits == 1          \* length of a short response's content
MaxRanked == 4          \* catalog length and ranking length, well-formed responses
MaxRequests == 2        \* effect runs of OpportunitiesPage
MaxPageCatalog == 2     \* catalog length under OpportunitiesPage
MaxFilterCatalog == 2   \* catalog length on the filter page
MaxQueued == 2          \* setFavorites updaters waiting for one render
MaxTimers == 4          \* snackbar timeouts set in one behaviour

(***************************************************************************)
(* Strings.                                                                *)
(***************************************************************************)
UpperChars == <<"A","B","C","D","E","F","G","H","I","J","K","L","M",
                "N","O","P","Q","R","S","T","U","V","W","X","Y","Z">>
LowerChars == <<"a","b","c","d","e","f","g","h","i","j","k","l","m",
                "n","o","p","q","r","s","t","u","v","w","x","y","z">>

UpperSet == {UpperChars[i] : i \in 1..Len(UpperChars)}
LowerOf ==
  [c \in UpperSet |-> LowerChars[CHOOSE i \in 1..Len(UpperChars) : UpperChars[i] = c]]

LowerChar(c) == IF c \in UpperSet THEN LowerOf[c] ELSE c

toLowerCase(s) == [i \in 1..Len(s) |-> LowerChar(s[i])]

\* Array.prototype.includes
includes(arr, x) == \E i \in 1..Len(arr) : arr[i] = x

\* Array.prototype.indexOf / String.prototype.indexOf for a one-character
\* needle: the 0-based position of the first occurrence, or -1.
indexOf(arr, x) ==
  IF includes(arr, x)
  THEN (CHOOSE i \in 1..Len(arr) :
          arr[i] = x /\ \A j \in 1..(i - 1) : arr[j] # x) - 1
  ELSE -1

\* Array.prototype.filter
filterSeq(s, keep) ==
  LET f[n \in 0..Len(s)] ==
        IF n = 0 THEN <<>>
        ELSE IF keep[n] THEN Append(f[n - 1], s[n]) ELSE f[n - 1]
  IN  f[Len(s)]

\* Array.prototype.sort with a comparator: a stable sort (ES2019).  x is
\* placed after every element the comparator does not put after it.
sort(s, Cmp(_, _)) ==
  LET f[n \in 0..Len(s)] ==
        IF n = 0 THEN <<>>
        ELSE LET sorted == f[n - 1]
                 x == s[n]
                 k == Cardinality({i \in 1..Len(sorted) : Cmp(sorted[i], x) <= 0})
             IN  SubSeq(sorted, 1, k) \o <<x>> \o SubSeq(sorted, k + 1, Len(sorted))
  IN  f[Len(s)]

\* Array.prototype.map: the array of the values F gives, each computed once
map(s, F(_)) ==
  LET f[n \in 0..Len(s)] == IF n = 0 THEN <<>> ELSE Append(f[n - 1], F(s[n]))
  IN  f[Len(s)]

\* Array.prototype.slice(0, n)
slice0(s, n) == SubSeq(s, 1, IF Len(s) < n THEN Len(s) ELSE n)

SeqsUpTo(S, n) == UNION {[1..k -> S] : k \in 0..n}

\* An absent list-valued field or argument (undefined): a value of the type
\* of a list of strings that no list of strings equals.
undefinedList == << <<"undefined">> >>

\* list?.length is falsy
hasNoLength(list) == list = undefinedList \/ Len(list) = 0

(***************************************************************************)
(* The catalog.                                                            *)
(***************************************************************************)
env == <<"e","n","v">>
Env == <<"E","n","v">>
ENV == <<"E","N","V">>
edu == <<"e","d","u">>
Edu == <<"E","d","u">>
art == <<"a","r","t">>

NoDate == [fmt |-> "none", day |-> 0, hour |-> 0]

Opportunity(id, title, description, location, skills, interests, date, startDate) ==
  [id |-> id, title |-> title, description |-> description,
   location |-> location, skills |-> skills, interests |-> interests,
   date |-> date, startDate |-> startDate]

\* The interests an opportunity of a ranking catalog may carry: none at all
\* (the field is absent), one, or two.
RankInterests == {undefinedList, <<Env>>, <<env, Edu>>}

RankOpportunity(id, ints) ==
  Opportunity(id, <<"t">>, <<"d">>, <<"x">>, <<>>, ints, NoDate, NoDate)

RankCatalogsOf(kinds, maxLen) ==
  UNION {{[i \in 1..n |-> RankOpportunity(i, c[i])] : c \in [1..n -> kinds]} :
           n \in 0..maxLen}

(***************************************************************************)
(* The remote ranking service, as one call sees it.  ok is the HTTP status *)
(* being 2xx; items is the parsed content when it is a JSON list (of       *)
(* numbers) or a JSON string (of digits).                                  *)
(***************************************************************************)
ThrowingKinds ==
  {"fetchRejects",      \* fetch() rejects: no response at all
   "bodyNotJson",       \* response.json() rejects
   "dataNull",          \* the body is JSON null: data.choices throws
   "noMessage",         \* choices[0] has no message: .content throws
   "contentMissing",    \* content is undefined or null: raw is undefined
   "contentNotString",  \* content is a number: .trim is not a function
   "contentBlank",      \* content is "" or white space: raw is ""
   "contentNotJson",    \* JSON.parse(raw) throws
   "contentScalar"}     \* a JSON number, boolean, null or object: no indexOf
SkippingKinds ==
  {"noChoices",         \* data.choices is undefined
   "emptyChoices"}      \* data.choices is []
RankingKinds ==
  {"contentString",     \* a JSON string: String.prototype.indexOf applies
   "contentList"}       \* a JSON array

Response(kind, ok, items) == [kind |-> kind, ok |-> ok, items |-> items]

TopN == 3

(***************************************************************************)
(* simpleRecommendations                                                   *)
(***************************************************************************)
score(opportunity, normalized) ==
  IF opportunity.interests = undefinedList THEN 0
  ELSE Cardinality({i \in 1..Len(opportunity.interests) :
                      includes(normalized, toLowerCase(opportunity.interests[i]))})

simpleRecommendations(interests) ==
  IF hasNoLength(interests) THEN allOpportunities
  ELSE
    LET normalized == [i \in 1..Len(interests) |-> toLowerCase(interests[i])]
        scored == [i \in 1..Len(allOpportunities) |->
                     [score |-> score(allOpportunities[i], normalized),
                      opportunity |-> allOpportunities[i]]]
        cmp(a, b) == b.score - a.score
        sorted == sort(scored, cmp)
    IN  [i \in 1..Len(sorted) |-> sorted[i].opportunity]

(***************************************************************************)
(* getAIRecommendations.  A promise settles as fulfilled with a value or   *)
(* as rejected.                                                            *)
(***************************************************************************)
Fulfilled(v) == [state |-> "fulfilled", value |-> v]
Rejected == [state |-> "rejected", value |-> <<>>]
Pending == [state |-> "pending", value |-> <<>>]

withRank(opportunity, rank) ==
  [id |-> opportunity.id, title |-> opportunity.title,
   description |-> opportunity.description, location |-> opportunity.location,
   skills |-> opportunity.skills, interests |-> opportunity.interests,
   date |-> opportunity.date, startDate |-> opportunity.startDate,
   rank |-> rank]

\* rankedOpportunities without the final slice(0, 3).
rankedOpportunitiesUncut(ranking) ==
  LET mapped == [index \in 1..Len(allOpportunities) |->
                   withRank(allOpportunities[index], indexOf(ranking, index))]
      kept == filterSeq(mapped, [i \in 1..Len(mapped) |-> mapped[i].rank >= 0])
      cmp(a, b) == a.rank - b.rank
  IN  sort(kept, cmp)

\* lines 101-108: map, filter, sort, slice
rankedOpportunities(ranking) ==
  LET mapped == [index \in 1..Len(allOpportunities) |->
                   withRank(allOpportunities[index], indexOf(ranking, index))]
      kept == filterSeq(mapped, [i \in 1..Len(mapped) |-> mapped[i].rank >= 0])
      cmp(a, b) == a.rank - b.rank
  IN  slice0(sort(kept, cmp), TopN)

\* The try block, lines 80-109: it returns, throws, or falls out of the if.
tryBlock(resp) ==
  IF resp.kind \in ThrowingKinds THEN [exit |-> "throw", value |-> <<>>]
  ELSE IF resp.kind \in SkippingKinds THEN [exit |-> "skip", value |-> <<>>]
  ELSE [exit |-> "return", value |-> rankedOpportunities(resp.items)]

\* getAIRecommendations without its catch: what the try block throws rejects
\* the promise.
getAIRecommendationsUncaught(interests, resp) ==
  LET t == tryBlock(resp)
  IN  IF t.exit = "return" THEN Fulfilled(t.value)
      ELSE IF t.exit = "throw" THEN Rejected
      ELSE Fulfilled(simpleRecommendations(interests))

\* The catch only logs, so a throw and a skipped if both reach line 114.
getAIRecommendations(interests, resp) ==
  LET t == tryBlock(resp)
  IN  IF t.exit = "return" THEN Fulfilled(t.value)
      ELSE Fulfilled(simpleRecommendations(interests))

\* recommendOpportunities without the guard of line 118.
recommendOpportunitiesUnguarded(interests, resp) ==
  LET awaited == getAIRecommendations(interests, resp)
  IN  IF awaited.state = "rejected" THEN Rejected
      ELSE IF Len(awaited.value) > 0 THEN awaited
      ELSE Fulfilled(allOpportunities)

\* recommendOpportunities answering an empty ranking with the local scoring.
recommendOpportunitiesScored(interests, resp) ==
  IF hasNoLength(interests) THEN Fulfilled(allOpportunities)
  ELSE
    LET awaited == getAIRecommendations(interests, resp)
    IN  IF awaited.state = "rejected" THEN Rejected
        ELSE IF Len(awaited.value) > 0 THEN awaited
        ELSE Fulfilled(simpleRecommendations(interests))

recommendOpportunities(interests, resp) ==
  IF hasNoLength(interests) THEN Fulfilled(allOpportunities)
  ELSE
    LET awaited == getAIRecommendations(interests, resp)
    IN  IF awaited.state = "rejected" THEN Rejected
        ELSE IF Len(awaited.value) > 0 THEN awaited
        ELSE Fulfilled(allOpportunities)

(***************************************************************************)
(* The parts of the state a specification does not exercise stay as they   *)
(* are before the component that owns them exists.                         *)
(***************************************************************************)
NoResponse == Response("fetchRejects", FALSE, <<>>)
NoProfile == [interests |-> undefinedList, skills |-> undefinedList]
NoDateRange == [start |-> NoDate, end |-> NoDate]
all == <<"a","l","l">>

RankIdle ==
  /\ interestsArg = <<>>
  /\ response = NoResponse
  /\ outcome = Pending

PageIdle ==
  /\ mounted = FALSE
  /\ requests = <<>>
  /\ recommended = <<>>
  /\ loading = TRUE
  /\ error = ""
  /\ shownFrom = 0

FilterIdle ==
  /\ searchTerm = <<>>
  /\ locationFilter = all
  /\ skillFilter = all
  /\ interestFilter = all
  /\ dateRange = NoDateRange
  /\ timeZone = 0

\* A value of localStorage: the key is absent, or holds a text that does not
\* parse, or one that parses to a falsy value, to a truthy value that is not
\* an array, or to an array of the given items.
Stored(kind, items) == [kind |-> kind, items |-> items]
Absent == Stored("absent", <<>>)

FavIdle ==
  /\ storage = Absent
  /\ favMounted = FALSE
  /\ favorites = <<>>
  /\ updates = <<>>
  /\ effectPending = FALSE
  /\ snackbarMessage = ""
  /\ snackbarVisible = FALSE
  /\ snackbarTimerRef = 0
  /\ timers = {}
  /\ timerSeq = 0
  /\ emitted = <<>>
  /\ hiddenBy = 0
  /\ loadedFrom = Absent
  /\ loaded = <<>>

LoadIdle ==
  /\ storedProfile = Absent
  /\ appMounted = FALSE
  /\ appProfile = <<>>
  /\ profileEffectPending = FALSE
  /\ loadRaised = FALSE
  /\ readFrom = Absent

\* null and undefined as the tags held by the modal
NoTags == [t |-> "null", fields |-> <<>>]
NoRequest == [sent |-> FALSE, description |-> <<>>]
NoReply == [settled |-> FALSE, arrives |-> FALSE, ok |-> FALSE, parses |-> FALSE,
            data |-> [t |-> "null", tags |-> NoTags]]

QuizIdle ==
  /\ quizMounted = FALSE
  /\ show = FALSE
  /\ quizInterests = <<>>
  /\ quizSkills = <<>>
  /\ isLoading = FALSE
  /\ apiResponse = NoTags
  /\ apiError = ""
  /\ request = NoRequest
  /\ submissions = 0
  /\ replied = NoReply
  /\ completed = {}
  /\ renderThrew = FALSE
  /\ closedBy = "none"

RouteIdle ==
  /\ routeMounted = FALSE
  /\ hash = <<>>
  /\ route = "home"
  /\ syncPending = FALSE
  /\ hashchanges = 0

CatalogIdle ==
  /\ catalogAtLoad = <<>>
  /\ returned = <<>>

BadgeIdle == favoritesOther = <<>>

NoForm == [name |-> <<>>, email |-> <<>>, password |-> <<>>, story |-> <<>>,
           interests |-> <<>>, skills |-> <<>>]
NoSave == [nth |-> 0, by |-> "none", payload |-> <<>>, before |-> <<>>,
           typed |-> NoForm, without |-> {}]

FormIdle ==
  /\ profileFile = "none"
  /\ form = NoForm
  /\ removed = {}
  /\ lastSave = NoSave

ExtraIdle == CatalogIdle /\ BadgeIdle /\ FormIdle

ShellIdle == FavIdle /\ LoadIdle /\ QuizIdle /\ RouteIdle /\ ExtraIdle

(***************************************************************************)
(* One call of recommendOpportunities on inputs drawn from bounded sets.   *)
(* Spec draws every kind of response, the ranked ones with a short         *)
(* content; RankingSpec draws the well-formed responses, with rankings     *)
(* long enough to be cut to TopN.                                          *)
(***************************************************************************)
InterestLabels == {env, ENV, Edu}
InterestArgs == {undefinedList} \cup SeqsUpTo(InterestLabels, MaxInterests)

\* The numbers a ranking over a catalog of n entries is drawn from: the valid
\* positions and one that is out of range.  In a JSON string they are its
\* characters, n + 1 standing for any character that is no valid position.
Rankings(n, maxLen) == SeqsUpTo(1..(n + 1), maxLen)

FailingResponses ==
  {NoResponse}
  \cup {Response(k, ok, <<>>) :
         k \in (ThrowingKinds \ {"fetchRejects"}) \cup SkippingKinds, ok \in BOOLEAN}

RankedResponses(kinds, n, maxLen) ==
  {Response(k, ok, r) : k \in kinds, ok \in BOOLEAN, r \in Rankings(n, maxLen)}

Init ==
  /\ allOpportunities \in RankCatalogsOf(RankInterests, MaxCatalog)
  /\ profile = NoProfile
  /\ interestsArg \in InterestArgs
  /\ response \in FailingResponses
                    \cup RankedResponses(RankingKinds, Len(allOpportunities), MaxDigits)
  /\ outcome = Pending
  /\ PageIdle
  /\ FilterIdle
  /\ ShellIdle

RankingInit ==
  /\ allOpportunities \in RankCatalogsOf({<<Env>>, <<env, Edu>>}, MaxRanked)
  /\ profile = NoProfile
  /\ interestsArg \in {<<ENV>>, <<Edu, env>>}
  /\ response \in RankedResponses({"contentList"}, Len(allOpportunities), MaxRanked)
  /\ outcome = Pending
  /\ PageIdle
  /\ FilterIdle
  /\ ShellIdle

Recommend ==
  /\ outcome.state = "pending"
  /\ outcome' = recommendOpportunities(interestsArg, response)
  /\ UNCHANGED <<shellVars, allOpportunities, profile, interestsArg, response, pageVars, filterVars>>

Next == Recommend

Spec == Init /\ [][Next]_vars

RankingSpec == RankingInit /\ [][Next]_vars

(***************************************************************************)
(* OpportunitiesPage: the effect of lines 239-269 runs at mount and at     *)
(* every change of the profile prop; its cleanup sets the ignore flag of   *)
(* the run it belongs to.  A request records the run: the interests it was *)
(* issued with, its ignore flag, and, once its promise settled, the        *)
(* response it got and its place in the order of completions.              *)
(***************************************************************************)
\* profile.interests?.filter(Boolean) ?? []
filterBoolean(interests) ==
  IF interests = undefinedList THEN <<>>
  ELSE filterSeq(interests, [i \in 1..Len(interests) |-> interests[i] # <<>>])

Request(interests) ==
  [interests |-> interests, ignore |-> FALSE, settled |-> FALSE,
   response |-> NoResponse, order |-> 0]

\* A cleanup that forgets to set the flag.
cleanupForgets(reqs) == reqs

\* lines 266-268: the cleanup of the latest run
cleanup(reqs) ==
  IF reqs = <<>> THEN reqs ELSE [reqs EXCEPT ![Len(reqs)].ignore = TRUE]

\* A continuation that does not look at the flag.
appliesAlways(req) == TRUE

\* A continuation that asks whether its request is the one issued last.
appliesToLatest(req) == req = requests[Len(requests)]

\* lines 250, 255, 260: if (!ignore)
applies(req) == ~req.ignore

\* lines 242-264, up to the await
loadRecommendations(reqs, prof) ==
  Append(reqs, Request(filterBoolean(prof.interests)))

PageProfiles ==
  {[interests |-> ints, skills |-> undefinedList] :
     ints \in {undefinedList, <<ENV>>, << <<>>, Edu >>}}

PageCatalogs ==
  {c \in RankCatalogsOf({<<Env>>, <<env, Edu>>}, MaxPageCatalog) : Len(c) > 0}

PageResponses ==
  {NoResponse,
   Response("contentList", TRUE, <<2, 1>>),
   Response("contentList", TRUE, <<>>)}

TroubleMessage == "We had trouble loading AI recommendations, so we are showing everything instead."

PageInit ==
  /\ allOpportunities \in PageCatalogs
  /\ profile \in PageProfiles
  /\ RankIdle
  /\ PageIdle
  /\ FilterIdle
  /\ ShellIdle

\* App renders OpportunitiesPage (route 'opportunities'): fresh state, then
\* the effect.
mountPage ==
  /\ ~mounted
  /\ Len(requests) < MaxRequests
  /\ mounted' = TRUE
  /\ recommended' = <<>>
  /\ loading' = TRUE
  /\ error' = ""
  /\ shownFrom' = 0
  /\ requests' = loadRecommendations(requests, profile)
  /\ UNCHANGED <<shellVars, allOpportunities, profile, rankVars, filterVars>>

\* App stops rendering OpportunitiesPage: the cleanup runs.
unmountPage ==
  /\ mounted
  /\ mounted' = FALSE
  /\ requests' = cleanup(requests)
  /\ UNCHANGED <<shellVars, allOpportunities, profile, rankVars, filterVars,
                 recommended, loading, error, shownFrom>>

\* The profile prop changes while the page is mounted: cleanup, then the
\* effect again.
profileChanges ==
  /\ mounted
  /\ Len(requests) < MaxRequests
  /\ \E p \in PageProfiles :
       /\ profile' = p
       /\ requests' = loadRecommendations(cleanup(requests), p)
  /\ loading' = TRUE
  /\ error' = ""
  /\ UNCHANGED <<shellVars, allOpportunities, rankVars, filterVars, mounted, recommended, shownFrom>>

\* handleProfileSave, lines 162-169, from ProfilePage: the profile is
\* replaced while OpportunitiesPage is not rendered.
handleProfileSave ==
  /\ ~mounted
  /\ \E p \in PageProfiles : profile' = p
  /\ UNCHANGED <<shellVars, allOpportunities, rankVars, filterVars, pageVars>>

\* The promise of request i settles, lines 249-261.
settle(i) ==
  /\ ~requests[i].settled
  /\ \E resp \in PageResponses :
       LET result == recommendOpportunities(requests[i].interests, resp)
           nth == Cardinality({j \in 1..Len(requests) : requests[j].settled}) + 1
       IN  /\ requests' = [requests EXCEPT ![i].settled = TRUE,
                                            ![i].response = resp,
                                            ![i].order = nth]
           /\ IF applies(requests[i])
              THEN /\ recommended' = IF result.state = "fulfilled" THEN result.value
                                     ELSE allOpportunities
                   /\ error' = IF result.state = "fulfilled" THEN error
                               ELSE TroubleMessage
                   /\ loading' = FALSE
                   /\ shownFrom' = i
              ELSE UNCHANGED <<recommended, error, loading, shownFrom>>
  /\ UNCHANGED <<shellVars, allOpportunities, profile, rankVars, filterVars, mounted>>

PageNext ==
  \/ mountPage
  \/ unmountPage
  \/ profileChanges
  \/ handleProfileSave
  \/ \E i \in 1..Len(requests) : settle(i)

PageSpec == PageInit /\ [][PageNext]_vars

(***************************************************************************)
(* Dates.  A date string is absent or empty ("none"), text that does not   *)
(* parse ("text"), a date-only ISO string such as 2025-11-15 ("iso"), which*)
(* new Date reads as midnight UTC, or a date-time or non-ISO date such as  *)
(* 2025-11-15T09:00 or Nov 15, 2025 ("local"), which it reads as local     *)
(* time.  A Date is a time in hours since the epoch, or invalid (NaN).     *)
(***************************************************************************)
DateString(fmt, day, hour) == [fmt |-> fmt, day |-> day, hour |-> hour]

\* a non-empty string
truthy(str) == str.fmt # "none"

\* new Date(string)
newDate(str) ==
  IF str.fmt = "iso" THEN [valid |-> TRUE, time |-> str.day * 24]
  ELSE IF str.fmt = "local"
       THEN [valid |-> TRUE, time |-> str.day * 24 + str.hour - timeZone]
       ELSE [valid |-> FALSE, time |-> 0]

\* date.setHours(0, 0, 0, 0): midnight of the date's local day
setHoursZero(date) ==
  [date EXCEPT !.time = ((date.time + timeZone) \div 24) * 24 - timeZone]

(***************************************************************************)
(* Opportunities (src/pages/Opportunities.jsx, lines 22-372): the filters  *)
(* and the filtered list.                                                  *)
(***************************************************************************)
isSpace(c) == c = " "

\* String.prototype.trim
RECURSIVE trimStart(_)
trimStart(s) == IF s # <<>> /\ isSpace(Head(s)) THEN trimStart(Tail(s)) ELSE s
RECURSIVE trimEnd(_)
trimEnd(s) ==
  IF s # <<>> /\ isSpace(s[Len(s)]) THEN trimEnd(SubSeq(s, 1, Len(s) - 1)) ELSE s
trim(s) == trimEnd(trimStart(s))

\* String.prototype.includes
stringIncludes(s, sub) ==
  \E i \in 0..(Len(s) - Len(sub)) : SubSeq(s, i + 1, i + Len(sub)) = sub

\* lines 81-106: the options of the three selects
locations == {allOpportunities[i].location : i \in 1..Len(allOpportunities)}
skills ==
  UNION {{toLowerCase(allOpportunities[i].skills[k]) :
            k \in 1..Len(allOpportunities[i].skills)} : i \in 1..Len(allOpportunities)}
uniqueInterests ==
  UNION {{allOpportunities[i].interests[k] :
            k \in 1..Len(allOpportunities[i].interests)} : i \in 1..Len(allOpportunities)}

\* lines 120-124
matchesSearch(opportunity, normalizedSearch) ==
  \/ normalizedSearch = <<>>
  \/ stringIncludes(toLowerCase(opportunity.title), normalizedSearch)
  \/ stringIncludes(toLowerCase(opportunity.description), normalizedSearch)
  \/ \E k \in 1..Len(opportunity.skills) :
       stringIncludes(toLowerCase(opportunity.skills[k]), normalizedSearch)

\* matchesLocation without the 'all' case.
matchesLocationExact(opportunity, location) == opportunity.location = location

\* line 129
matchesLocation(opportunity, location) ==
  location = all \/ opportunity.location = location

\* lines 132-133
matchesSkill(opportunity, skill) ==
  \/ skill = all
  \/ \E k \in 1..Len(opportunity.skills) : toLowerCase(opportunity.skills[k]) = skill

\* lines 136-137
matchesInterestFilter(opportunity, interest) ==
  \/ interest = all
  \/ \E k \in 1..Len(opportunity.interests) :
       toLowerCase(opportunity.interests[k]) = toLowerCase(interest)

\* line 141
oppDateStringOf(opportunity) ==
  IF truthy(opportunity.date) THEN opportunity.date ELSE opportunity.startDate

\* matchesDate failing an opportunity without a usable date once a bound is
\* set.
matchesDateStrict(opportunity, range) ==
  LET oppDateString == oppDateStringOf(opportunity)
      oppDate == setHoursZero(newDate(oppDateString))
      startDate == setHoursZero(newDate(range.start))
      endDate == setHoursZero(newDate(range.end))
  IN  IF truthy(oppDateString) /\ newDate(oppDateString).valid
      THEN /\ truthy(range.start) => ~(oppDate.time < startDate.time)
           /\ truthy(range.end) => ~(oppDate.time > endDate.time)
      ELSE ~truthy(range.start) /\ ~truthy(range.end)

\* lines 140-161
matchesDate(opportunity, range) ==
  LET oppDateString == oppDateStringOf(opportunity)
      oppDate == setHoursZero(newDate(oppDateString))
      startDate == setHoursZero(newDate(range.start))
      endDate == setHoursZero(newDate(range.end))
  IN  IF truthy(oppDateString) /\ newDate(oppDateString).valid
      THEN /\ truthy(range.start) => ~(oppDate.time < startDate.time)
           /\ truthy(range.end) => ~(oppDate.time > endDate.time)
      ELSE TRUE

\* lines 118-164: the predicate of the filter
passesFilters(opportunity, normalizedSearch, location, skill, interest, range) ==
  /\ matchesSearch(opportunity, normalizedSearch)
  /\ matchesLocation(opportunity, location)
  /\ matchesSkill(opportunity, skill)
  /\ matchesInterestFilter(opportunity, interest)
  /\ matchesDate(opportunity, range)

\* (list || []).map(toLowerCase) as a Set, lines 110-114
lowerSet(list) ==
  IF list = undefinedList THEN {}
  ELSE {toLowerCase(list[k]) : k \in 1..Len(list)}

\* overlap counting nothing.
overlapNone(list, userSet) == 0

\* lines 167-171: the entries of list whose lower case is in the set
overlap(list, userSet) ==
  Cardinality({k \in 1..Len(list) : toLowerCase(list[k]) \in userSet})

\* lines 108-194, for given values of the filters
filteredBy(search, location, skill, interest, range) ==
  LET normalizedSearch == toLowerCase(trim(search))
      indexed == [index \in 1..Len(allOpportunities) |->
                    [opportunity |-> allOpportunities[index], index |-> index]]
      kept == filterSeq(indexed,
                [i \in 1..Len(indexed) |->
                   passesFilters(indexed[i].opportunity, normalizedSearch,
                                 location, skill, interest, range)])
      userInterestSet == lowerSet(profile.interests)
      userSkillSet == lowerSet(profile.skills)
      withOverlaps(item) ==
        [opportunity |-> item.opportunity,
         index |-> item.index,
         interestOverlap |-> overlap(item.opportunity.interests, userInterestSet),
         skillOverlap |-> overlap(item.opportunity.skills, userSkillSet)]
      scored == map(kept, withOverlaps)
      cmp(a, b) ==
        IF b.interestOverlap # a.interestOverlap
        THEN b.interestOverlap - a.interestOverlap
        ELSE IF b.skillOverlap # a.skillOverlap
             THEN b.skillOverlap - a.skillOverlap
             ELSE a.index - b.index
      sorted == sort(scored, cmp)
  IN  [i \in 1..Len(sorted) |-> sorted[i].opportunity]

filteredOpportunities ==
  filteredBy(searchTerm, locationFilter, skillFilter, interestFilter, dateRange)

\* The opportunities a catalog of the filter page is made of.
Pq == <<"P","q">>
pQ == <<"p","Q">>
rs == <<"r","s">>
FilterTemplates ==
  {Opportunity(0, <<"A","b">>, <<"c"," ","d">>, <<"X">>, <<Pq>>, <<Env>>,
               DateString("iso", 3, 0), NoDate),
   Opportunity(0, <<"c","d">>, <<"e">>, <<"Y">>, <<rs>>, <<edu>>,
               NoDate, DateString("local", 2, 9)),
   Opportunity(0, <<"B","p","q">>, <<"b","a">>, <<"X">>, <<>>, <<>>,
               DateString("text", 0, 0), DateString("iso", 2, 0)),
   Opportunity(0, <<"e">>, <<"A"," ","P","Q","b">>, <<"Y">>, <<rs, pQ>>, <<Env, edu>>,
               NoDate, NoDate)}

FilterCatalogs ==
  UNION {{[i \in 1..n |-> [c[i] EXCEPT !.id = i]] : c \in [1..n -> FilterTemplates]} :
           n \in 0..MaxFilterCatalog}

SearchTerms == {<<>>, <<" ","p","Q"," ">>}
DateInputs == {NoDate} \cup {DateString("iso", d, 0) : d \in 2..3}
TimeZones == {-5, 0, 8}
FilterProfiles ==
  {NoProfile, [interests |-> <<ENV>>, skills |-> <<rs>>]}

FilterInit ==
  /\ allOpportunities \in FilterCatalogs
  /\ profile \in FilterProfiles
  /\ RankIdle
  /\ PageIdle
  /\ ShellIdle
  /\ searchTerm = <<>>
  /\ locationFilter = all
  /\ skillFilter = all
  /\ interestFilter = all
  /\ dateRange = NoDateRange
  /\ timeZone \in TimeZones

\* line 242
setSearchTerm ==
  /\ \E v \in SearchTerms : searchTerm' = v
  /\ UNCHANGED <<shellVars, allOpportunities, profile, rankVars, pageVars,
                 locationFilter, skillFilter, interestFilter, dateRange, timeZone>>

\* lines 247-254
setLocationFilter ==
  /\ \E v \in {all} \cup locations : locationFilter' = v
  /\ UNCHANGED <<shellVars, allOpportunities, profile, rankVars, pageVars,
                 searchTerm, skillFilter, interestFilter, dateRange, timeZone>>

\* lines 258-268
setSkillFilter ==
  /\ \E v \in {all} \cup skills : skillFilter' = v
  /\ UNCHANGED <<shellVars, allOpportunities, profile, rankVars, pageVars,
                 searchTerm, locationFilter, interestFilter, dateRange, timeZone>>

\* lines 272-279
setInterestFilter ==
  /\ \E v \in {all} \cup uniqueInterests : interestFilter' = v
  /\ UNCHANGED <<shellVars, allOpportunities, profile, rankVars, pageVars,
                 searchTerm, locationFilter, skillFilter, dateRange, timeZone>>

\* line 287
setDateRangeStart ==
  /\ \E v \in DateInputs : dateRange' = [dateRange EXCEPT !.start = v]
  /\ UNCHANGED <<shellVars, allOpportunities, profile, rankVars, pageVars,
                 searchTerm, locationFilter, skillFilter, interestFilter, timeZone>>

\* line 297
setDateRangeEnd ==
  /\ \E v \in DateInputs : dateRange' = [dateRange EXCEPT !.end = v]
  /\ UNCHANGED <<shellVars, allOpportunities, profile, rankVars, pageVars,
                 searchTerm, locationFilter, skillFilter, interestFilter, timeZone>>

\* lines 196-203; onClearProfile, when the parent passes it, is the parent's
\* and may replace the profile prop.
handleClearFilters ==
  /\ searchTerm' = <<>>
  /\ locationFilter' = all
  /\ skillFilter' = all
  /\ interestFilter' = all
  /\ dateRange' = NoDateRange
  /\ profile' \in FilterProfiles
  /\ UNCHANGED <<shellVars, allOpportunities, rankVars, pageVars, timeZone>>

FilterNext ==
  \/ setSearchTerm
  \/ setLocationFilter
  \/ setSkillFilter
  \/ setInterestFilter
  \/ setDateRangeStart
  \/ setDateRangeEnd
  \/ handleClearFilters

FilterSpec == FilterInit /\ [][FilterNext]_vars

(***************************************************************************)
(* Properties of recommendOpportunities.                                   *)
(***************************************************************************)
Settled == outcome.state # "pending"

Min(a, b) == IF a < b THEN a ELSE b

\* The number of interests of an opportunity that equal some profile
\* interest when case is ignored.
Matches(opportunity, interests) ==
  IF opportunity.interests = undefinedList THEN 0
  ELSE Cardinality({i \in 1..Len(opportunity.interests) :
         \E j \in 1..Len(interests) :
           toLowerCase(opportunity.interests[i]) = toLowerCase(interests[j])})

\* item is the catalog entry at position pos, possibly with a rank added.
IsEntry(item, pos) ==
  /\ pos \in 1..Len(allOpportunities)
  /\ \A f \in DOMAIN allOpportunities[pos] :
       f \in DOMAIN item /\ item[f] = allOpportunities[pos][f]

\* list is the whole catalog by descending number of matches, entries with
\* the same number in catalog order.
IsLocalScoring(list, interests) ==
  /\ Len(list) = Len(allOpportunities)
  /\ \A k \in 1..Len(list) : list[k] = allOpportunities[list[k].id]
  /\ \A k, l \in 1..Len(list) :
       k < l =>
         \/ Matches(list[k], interests) > Matches(list[l], interests)
         \/ /\ Matches(list[k], interests) = Matches(list[l], interests)
            /\ list[k].id < list[l].id

\* The valid catalog positions a ranking names, and where each is first
\* named.
Named(ranking) ==
  {pos \in 1..Len(allOpportunities) : \E i \in 1..Len(ranking) : ranking[i] = pos}
FirstNamed(ranking, pos) ==
  CHOOSE i \in 1..Len(ranking) :
    ranking[i] = pos /\ \A j \in 1..(i - 1) : ranking[j] # pos

\* list holds the named entries in the order the ranking first names them,
\* cut to the first TopN.
IsRankingOf(list, ranking) ==
  /\ Len(list) = Min(TopN, Cardinality(Named(ranking)))
  /\ \A k \in 1..Len(list) : list[k].id \in Named(ranking) /\ IsEntry(list[k], list[k].id)
  /\ \A k, l \in 1..Len(list) :
       k < l => FirstNamed(ranking, list[k].id) < FirstNamed(ranking, list[l].id)
  /\ \A pos \in Named(ranking) :
       (\E k \in 1..Len(list) : list[k].id = pos)
         \/ \A k \in 1..Len(list) :
              FirstNamed(ranking, list[k].id) < FirstNamed(ranking, pos)

\* C1: with an empty or absent interests list the call resolves to the
\* catalog itself, every opportunity in catalog order, whatever the remote
\* service would have answered.
C1_EmptyInterestsPassthrough ==
  (Settled /\ hasNoLength(interestsArg)) => outcome = Fulfilled(allOpportunities)

C1_Witness ==
  /\ Settled
  /\ interestsArg = undefinedList
  /\ Len(allOpportunities) >= 2
  /\ response.kind = "contentList" /\ response.ok /\ response.items = <<2>>
  /\ outcome.value = allOpportunities

\* The answers the remote ranking cannot be read from.
MalformedKinds == ThrowingKinds \cup SkippingKinds \cup {"contentString"}

\* C2: for non-empty interests, a remote call that throws or returns
\* malformed content (unparsable body, missing or empty choices, empty or
\* unparsable content, content that is not a JSON list) yields the local
\* scoring of the whole catalog.  Stated for the answers with a 2xx status;
\* the others are C3's.
C2_MalformedGivesLocalScoring ==
  (Settled /\ ~hasNoLength(interestsArg) /\ response.kind \in MalformedKinds
     /\ (response.ok \/ response.kind = "fetchRejects"))
    => /\ outcome.state = "fulfilled"
       /\ IsLocalScoring(outcome.value, interestsArg)

\* C3: a non-2xx answer, whatever its body, yields the local scoring of the
\* whole catalog.
C3_BadStatusGivesLocalScoring ==
  (Settled /\ ~hasNoLength(interestsArg)
     /\ response.kind # "fetchRejects" /\ ~response.ok)
    => /\ outcome.state = "fulfilled"
       /\ IsLocalScoring(outcome.value, interestsArg)

\* C4: for a well-formed response whose content is a list of 1-based
\* indices, the reconciled ranking holds exactly the catalog entries the
\* list names, in the order the list first names them, cut to the first 3;
\* it is what the call resolves to unless it is empty, and a list naming all
\* N entries yields min(3, N) results.
WellFormed == response.kind = "contentList" /\ response.ok

C4_RankedByResponse ==
  (Settled /\ ~hasNoLength(interestsArg) /\ WellFormed)
    => LET ranked == getAIRecommendations(interestsArg, response)
       IN  /\ ranked.state = "fulfilled"
           /\ IsRankingOf(ranked.value, response.items)
           /\ outcome.state = "fulfilled"
           /\ Len(ranked.value) > 0 => outcome.value = ranked.value
           /\ Named(response.items) = 1..Len(allOpportunities)
                => Len(outcome.value) = Min(TopN, Len(allOpportunities))

C4_Witness ==
  /\ Settled
  /\ WellFormed
  /\ Len(allOpportunities) = 4
  /\ response.items = <<3, 4, 1, 2>>
  /\ Len(outcome.value) = 3
  /\ outcome.value[1].id = 3 /\ outcome.value[2].id = 4 /\ outcome.value[3].id = 1

\* C5: a parseable list none of whose indices is a valid position (the
\* empty list too) yields the full catalog in catalog order.
C5_NothingUsableGivesCatalog ==
  (Settled /\ ~hasNoLength(interestsArg) /\ WellFormed
     /\ Named(response.items) = {})
    => outcome = Fulfilled(allOpportunities)

C5_Witness ==
  /\ Settled
  /\ WellFormed
  /\ Len(response.items) > 0
  /\ Named(response.items) = {}
  /\ simpleRecommendations(interestsArg) # allOpportunities
  /\ outcome.value = allOpportunities

\* C7: whatever the remote call does, the call resolves and never rejects;
\* for a non-empty catalog the list is non-empty, and every entry of it is a
\* catalog opportunity.
C7_AlwaysAUsableList ==
  Settled
    => /\ outcome.state = "fulfilled"
       /\ Len(allOpportunities) > 0 => Len(outcome.value) > 0
       /\ \A k \in 1..Len(outcome.value) : IsEntry(outcome.value[k], outcome.value[k].id)

C7_Witness ==
  /\ Settled
  /\ ~hasNoLength(interestsArg)
  /\ response.kind = "contentNotJson"
  /\ Len(allOpportunities) > 0
  /\ Len(outcome.value) = Len(allOpportunities)

(***************************************************************************)
(* Properties of OpportunitiesPage.                                        *)
(***************************************************************************)
\* What the page shows for a settled request that is applied.
ResultOf(req) ==
  LET result == recommendOpportunities(req.interests, req.response)
  IN  IF result.state = "fulfilled" THEN result.value ELSE allOpportunities

\* Once the request issued last has resolved, the list is its result.
C6_LatestShown ==
  (mounted /\ requests # <<>> /\ requests[Len(requests)].settled)
    => /\ recommended = ResultOf(requests[Len(requests)])
       /\ shownFrom = Len(requests)

\* C6: a request that was superseded never sets the visible list: the list
\* is only ever set from the request issued last, and once that request has
\* resolved the list is its result, in whatever order the others resolve.
C6_StaleSuppressed ==
  /\ []C6_LatestShown
  /\ [][shownFrom' # shownFrom => shownFrom' \in {0, Len(requests')}]_vars

\* R1 was issued, then R2; R2 resolved first, R1 afterwards with another
\* result, and the page shows R2's.
C6_Witness ==
  /\ mounted
  /\ Len(requests) = 2
  /\ requests[2].settled /\ requests[2].order = 1
  /\ requests[1].settled /\ requests[1].order = 2
  /\ ResultOf(requests[1]) # ResultOf(requests[2])
  /\ recommended = ResultOf(requests[2])

(***************************************************************************)
(* Properties of the filter.                                               *)
(***************************************************************************)
Ids(list) == {list[k].id : k \in 1..Len(list)}

InFiltered(opportunity) == opportunity.id \in Ids(filteredOpportunities)

\* The search text: what was typed, without the white space around it.
SearchText == trim(searchTerm)

ContainsIgnoringCase(s, sub) ==
  \E i \in 0..(Len(s) - Len(sub)) :
    \A k \in 1..Len(sub) : LowerChar(s[i + k]) = LowerChar(sub[k])

SameIgnoringCase(a, b) ==
  Len(a) = Len(b) /\ \A k \in 1..Len(a) : LowerChar(a[k]) = LowerChar(b[k])

SearchFacet(o) ==
  \/ SearchText = <<>>
  \/ ContainsIgnoringCase(o.title, SearchText)
  \/ ContainsIgnoringCase(o.description, SearchText)
  \/ \E k \in 1..Len(o.skills) : ContainsIgnoringCase(o.skills[k], SearchText)

LocationFacet(o) == locationFilter = all \/ o.location = locationFilter

SkillFacet(o) ==
  skillFilter = all \/ \E k \in 1..Len(o.skills) : SameIgnoringCase(o.skills[k], skillFilter)

InterestFacet(o) ==
  \/ interestFilter = all
  \/ \E k \in 1..Len(o.interests) : SameIgnoringCase(o.interests[k], interestFilter)

\* The opportunity's date names a calendar day.
HasParseableDate(o) == oppDateStringOf(o).fmt \in {"iso", "local"}

\* That day is not before the day dateStart names nor after the day dateEnd
\* names.
DateFacet(o) ==
  HasParseableDate(o) =>
    /\ truthy(dateRange.start) => dateRange.start.day <= oppDateStringOf(o).day
    /\ truthy(dateRange.end) => oppDateStringOf(o).day <= dateRange.end.day

\* C8: an opportunity is in the filtered list exactly when it satisfies each
\* constrained facet on its own: the search text is a case-insensitive
\* substring of its title, description or a skill; its location is the one
\* asked for; its skills and interests hold the ones asked for, case
\* ignored; its date, when it parses, lies in [dateStart, dateEnd] by
\* calendar day.  The profile plays no part.
C8_FilterIsConjunctionOfFacets ==
  LET shown == Ids(filteredOpportunities)
  IN  \A i \in 1..Len(allOpportunities) :
        LET o == allOpportunities[i]
        IN  o.id \in shown <=>
              /\ SearchFacet(o)
              /\ LocationFacet(o)
              /\ SkillFacet(o)
              /\ InterestFacet(o)
              /\ DateFacet(o)

Unconstrained(search, location, skill, interest, range) ==
  {<<<<>>, location, skill, interest, range>>,
   <<search, all, skill, interest, range>>,
   <<search, location, all, interest, range>>,
   <<search, location, skill, all, range>>,
   <<search, location, skill, interest, [range EXCEPT !.start = NoDate]>>,
   <<search, location, skill, interest, [range EXCEPT !.end = NoDate]>>}

\* C9: making one facet unconstrained (the search text, the location, the
\* skill, the interest, dateStart or dateEnd), the others as they are, never
\* removes an opportunity from the filtered list.
C9_UnconstrainingGrows ==
  LET shown == Ids(filteredOpportunities)
  IN  \A c \in Unconstrained(searchTerm, locationFilter, skillFilter, interestFilter, dateRange) :
        shown \subseteq Ids(filteredBy(c[1], c[2], c[3], c[4], c[5]))

\* Every facet is constrained, nothing passes, and clearing the location
\* lets an opportunity in.
C9_Witness ==
  /\ trim(searchTerm) # <<>>
  /\ locationFilter # all /\ skillFilter # all /\ interestFilter # all
  /\ truthy(dateRange.start) /\ truthy(dateRange.end)
  /\ filteredOpportunities = <<>>
  /\ filteredBy(searchTerm, all, skillFilter, interestFilter, dateRange) # <<>>

\* C10: an opportunity with no date, or with a date that does not parse, is
\* in the filtered list exactly when it is with the date range cleared,
\* whatever dateStart and dateEnd are.
C10_FlexibleDatePasses ==
  LET shown == Ids(filteredOpportunities)
      cleared == Ids(filteredBy(searchTerm, locationFilter, skillFilter,
                                interestFilter, NoDateRange))
  IN  \A i \in 1..Len(allOpportunities) :
        LET o == allOpportunities[i]
        IN  ~HasParseableDate(o) =>
              /\ matchesDate(o, dateRange)
              /\ o.id \in shown <=> o.id \in cleared

\* Both bounds are set and exclude a dated opportunity, while one with no
\* date, or with a date that does not parse, stays in the list.
C10_Witness ==
  /\ truthy(dateRange.start) /\ truthy(dateRange.end)
  /\ \E i, j \in 1..Len(allOpportunities) :
       /\ oppDateStringOf(allOpportunities[i]).fmt \in {"text", "none"}
       /\ InFiltered(allOpportunities[i])
       /\ HasParseableDate(allOpportunities[j])
       /\ ~InFiltered(allOpportunities[j])
       /\ allOpportunities[j].id \in
            Ids(filteredBy(searchTerm, locationFilter, skillFilter, interestFilter, NoDateRange))

(***************************************************************************)
(* The order of the filtered list.                                         *)
(***************************************************************************)
\* How many entries of list the profile's list holds, case ignored.
Shared(list, profileList) ==
  IF profileList = undefinedList THEN 0
  ELSE Cardinality({k \in 1..Len(list) :
         \E j \in 1..Len(profileList) : SameIgnoringCase(list[k], profileList[j])})

\* a is listed before b: more shared interests, else more shared skills,
\* else earlier in the catalog (the id of a catalog entry is its position).
ListedBefore(a, b) ==
  LET ia == Shared(a.interests, profile.interests)
      ib == Shared(b.interests, profile.interests)
      sa == Shared(a.skills, profile.skills)
      sb == Shared(b.skills, profile.skills)
  IN  \/ ia > ib
      \/ ia = ib /\ sa > sb
      \/ ia = ib /\ sa = sb /\ a.id < b.id

PositionIn(list, id) == CHOOSE k \in 1..Len(list) : list[k].id = id

\* C11: the filtered list is in descending interestOverlap, then descending
\* skillOverlap, then ascending catalog index, and any two of its entries
\* stand in the order they have in the list with every facet unconstrained.
C11_OrderedByOverlap ==
  LET shown == filteredOpportunities
      unfiltered == filteredBy(<<>>, all, all, all, NoDateRange)
  IN  \A p, q \in 1..Len(shown) :
        p < q =>
          /\ ListedBefore(shown[p], shown[q])
          /\ PositionIn(unfiltered, shown[p].id) < PositionIn(unfiltered, shown[q].id)

\* With a start date set, two opportunities sharing no interest with the
\* profile are listed against catalog order, the one sharing a skill first.
C11_Witness ==
  /\ truthy(dateRange.start)
  /\ Len(filteredOpportunities) = 2
  /\ filteredOpportunities[1].id = 2
  /\ filteredOpportunities[2].id = 1
  /\ Shared(filteredOpportunities[1].interests, profile.interests) = 0
  /\ Shared(filteredOpportunities[1].skills, profile.skills) = 1
  /\ Shared(filteredOpportunities[2].skills, profile.skills) = 0

(***************************************************************************)
(* Opportunities (src/pages/Opportunities.jsx, lines 17-79): favourites,   *)
(* their persistence and the snackbar.                                     *)
(*                                                                         *)
(* A JavaScript value that can be a favourite id or an item of the stored  *)
(* array: a number, a string, null, or NaN.  The strings used hold digits, *)
(* letters and spaces only.                                                *)
(***************************************************************************)
Num(n) == [t |-> "number", n |-> n, s |-> <<>>]
Str(s) == [t |-> "string", n |-> 0, s |-> s]
JNull == [t |-> "null", n |-> 0, s |-> <<>>]
NaN == [t |-> "NaN", n |-> 0, s |-> <<>>]

DigitChars == <<"0","1","2","3","4","5","6","7","8","9">>
isDigit(c) == \E d \in 1..Len(DigitChars) : DigitChars[d] = c
digitValue(c) == (CHOOSE d \in 1..Len(DigitChars) : DigitChars[d] = c) - 1

\* StringToNumber of a string of digits
decimalValue(s) ==
  LET f[n \in 0..Len(s)] == IF n = 0 THEN 0 ELSE f[n - 1] * 10 + digitValue(s[n])
  IN  f[Len(s)]

\* Number(value): white space is trimmed, the empty string is 0, null is 0
Number(value) ==
  IF value.t = "number" THEN value
  ELSE IF value.t = "null" THEN Num(0)
  ELSE IF value.t = "string"
       THEN LET text == trim(value.s)
            IN  IF \A k \in 1..Len(text) : isDigit(text[k])
                THEN Num(decimalValue(text))
                ELSE NaN
       ELSE NaN

\* normalizeFavoriteId keeping the value as it is.
normalizeFavoriteIdNot(value) == value

\* lines 17-20
normalizeFavoriteId(value) ==
  LET asNumber == Number(value)
  IN  IF asNumber.t = "NaN" THEN value ELSE asNumber

\* Array.from(arr), every occurrence kept.
uniqKeepsAll(arr) == arr

\* Array.from(new Set(arr)): the first occurrence of each value, in order
uniq(arr) ==
  filterSeq(arr, [k \in 1..Len(arr) |-> \A j \in 1..(k - 1) : arr[j] # arr[k]])

normalizeAll(arr) == [k \in 1..Len(arr) |-> normalizeFavoriteId(arr[k])]

\* lines 34-41: the initial favourites
favoritesInitialState(stored) ==
  IF stored.kind = "list" THEN uniq(normalizeAll(stored.items)) ELSE <<>>

\* JSON.stringify(favorites) with nothing in it.
stringifyEmpty(favs) == Stored("list", <<>>)

\* JSON.stringify(favorites): numbers and strings are kept, NaN becomes null
stringify(favs) ==
  Stored("list", [k \in 1..Len(favs) |-> IF favs[k].t = "NaN" THEN JNull ELSE favs[k]])

Added == "Added to favourites"
Removed == "Removed from favourites"

\* What one component instance holds between renders.
Instance(favs, message, visible, ref, pending, seq, log) ==
  [favorites |-> favs, snackbarMessage |-> message, snackbarVisible |-> visible,
   snackbarTimerRef |-> ref, timers |-> pending, timerSeq |-> seq, emitted |-> log]

\* clearTimeout
clearTimeout(pending, id) == pending \ {id}

\* The timer of the previous toggle left running.
clearPendingNot(st) == st.timers

\* lines 61-63
clearPending(st) ==
  IF st.snackbarTimerRef # 0 THEN clearTimeout(st.timers, st.snackbarTimerRef)
  ELSE st.timers

\* The message opposite to the code's.
messageForSwapped(isFavorited) == IF isFavorited THEN Added ELSE Removed

\* line 64
messageFor(isFavorited) == IF isFavorited THEN Removed ELSE Added

\* nextFavorites adding in both cases.
nextFavoritesAdds(normalizedCurrent, idValue) == Append(normalizedCurrent, idValue)

\* nextFavorites with the id put first when it is added.
nextFavoritesLastFirst(normalizedCurrent, idValue) ==
  LET kept == filterSeq(normalizedCurrent,
                        [k \in 1..Len(normalizedCurrent) |-> normalizedCurrent[k] # idValue])
  IN  IF includes(normalizedCurrent, idValue)
      THEN kept
      ELSE [k \in 1..(Len(kept) + 1) |->
              IF k = 1 THEN idValue ELSE kept[Len(kept) + 2 - k]]

\* lines 58-60
nextFavorites(normalizedCurrent, idValue) ==
  IF includes(normalizedCurrent, idValue)
  THEN filterSeq(normalizedCurrent,
                 [k \in 1..Len(normalizedCurrent) |-> normalizedCurrent[k] # idValue])
  ELSE Append(normalizedCurrent, idValue)

\* lines 55-72: the updater handleToggleFavorite passes to setFavorites
updater(st, id) ==
  LET idValue == normalizeFavoriteId(id)
      normalizedCurrent == normalizeAll(st.favorites)
      isFavorited == includes(normalizedCurrent, idValue)
      next == nextFavorites(normalizedCurrent, idValue)
      timer == st.timerSeq + 1
      result == uniq(next)
  IN  Instance(result, messageFor(isFavorited), TRUE, timer,
               clearPending(st) \cup {timer}, timer,
               Append(st.emitted,
                      [id |-> id, before |-> st.favorites, after |-> result,
                       message |-> messageFor(isFavorited)]))

\* the queued updaters applied in the order of the calls
RECURSIVE applyUpdates(_, _)
applyUpdates(st, ids) ==
  IF ids = <<>> THEN st ELSE applyUpdates(updater(st, Head(ids)), Tail(ids))

\* lines 465-471, the second definition of Opportunities: no normalization
handleToggleFavoriteSecond(current, id) ==
  IF includes(current, id)
  THEN filterSeq(current, [k \in 1..Len(current) |-> current[k] # id])
  ELSE Append(current, id)

Three == <<"3">>
Ex == <<"x">>
ToggleIds == {Num(3), Str(Three), Str(Ex)}

StoredStates ==
  {Absent, Stored("unparsable", <<>>), Stored("falsy", <<>>), Stored("nonlist", <<>>)}
    \cup {Stored("list", items) :
            items \in {<<>>, <<Str(Three)>>, <<Num(3), Str(<<" ","3">>), Str(Ex)>>, <<JNull, Str(Ex)>>,
                       <<Str(Three), Num(3), Num(3), Str(Ex), Str(Ex)>>}}

FavRest == <<allOpportunities, profile, rankVars, pageVars, filterVars, loadVars,
             quizVars, routeVars, extraVars>>

FavInit ==
  /\ allOpportunities = <<>>
  /\ profile = NoProfile
  /\ RankIdle
  /\ PageIdle
  /\ FilterIdle
  /\ LoadIdle
  /\ QuizIdle
  /\ RouteIdle
  /\ ExtraIdle
  /\ storage \in StoredStates
  /\ favMounted = FALSE
  /\ favorites = <<>>
  /\ updates = <<>>
  /\ effectPending = FALSE
  /\ snackbarMessage = ""
  /\ snackbarVisible = FALSE
  /\ snackbarTimerRef = 0
  /\ timers = {}
  /\ timerSeq = 0
  /\ emitted = <<>>
  /\ hiddenBy = 0
  /\ loadedFrom = Absent
  /\ loaded = <<>>

\* lines 22-51: the component mounts; its effects are scheduled
mountOpportunities ==
  /\ ~favMounted
  /\ favMounted' = TRUE
  /\ favorites' = favoritesInitialState(storage)
  /\ loadedFrom' = storage
  /\ loaded' = favoritesInitialState(storage)
  /\ updates' = <<>>
  /\ effectPending' = TRUE
  /\ snackbarMessage' = ""
  /\ snackbarVisible' = FALSE
  /\ snackbarTimerRef' = 0
  /\ emitted' = <<>>
  /\ UNCHANGED <<FavRest, storage, timers, timerSeq, hiddenBy>>

\* lines 46-51: the [favorites] effect
persistFavorites ==
  /\ favMounted /\ effectPending
  /\ storage' = stringify(favorites)
  /\ effectPending' = FALSE
  /\ UNCHANGED <<FavRest, favMounted, favorites, updates, snackbarMessage, snackbarVisible,
                 snackbarTimerRef, timers, timerSeq, emitted, hiddenBy, loadedFrom, loaded>>

\* lines 53-55: handleToggleFavorite queues an updater
handleToggleFavorite ==
  /\ favMounted
  /\ Len(updates) < MaxQueued
  /\ timerSeq + Len(updates) < MaxTimers
  /\ \E id \in ToggleIds : updates' = Append(updates, id)
  /\ UNCHANGED <<FavRest, storage, favMounted, favorites, effectPending, snackbarMessage,
                 snackbarVisible, snackbarTimerRef, timers, timerSeq, emitted, hiddenBy,
                 loadedFrom, loaded>>

\* the render that applies the queued updaters (lines 55-72), after the
\* effects of the previous render have run
renderFavorites ==
  /\ favMounted /\ updates # <<>> /\ ~effectPending
  /\ LET st == applyUpdates(Instance(favorites, snackbarMessage, snackbarVisible,
                                     snackbarTimerRef, timers, timerSeq, <<>>),
                            updates)
     IN  /\ favorites' = st.favorites
         /\ snackbarMessage' = st.snackbarMessage
         /\ snackbarVisible' = st.snackbarVisible
         /\ snackbarTimerRef' = st.snackbarTimerRef
         /\ timers' = st.timers
         /\ timerSeq' = st.timerSeq
         /\ emitted' = st.emitted
  /\ updates' = <<>>
  /\ effectPending' = TRUE
  /\ UNCHANGED <<FavRest, storage, favMounted, hiddenBy, loadedFrom, loaded>>

\* lines 66-69: a timeout fires
timerFires ==
  /\ \E t \in timers :
       /\ timers' = timers \ {t}
       /\ hiddenBy' = t
  /\ snackbarVisible' = FALSE
  /\ snackbarTimerRef' = 0
  /\ UNCHANGED <<FavRest, storage, favMounted, favorites, updates, effectPending,
                 snackbarMessage, timerSeq, emitted, loadedFrom, loaded>>

\* lines 75-79: the component unmounts once its effects have run
unmountOpportunities ==
  /\ favMounted /\ ~effectPending
  /\ favMounted' = FALSE
  /\ timers' = IF snackbarTimerRef # 0 THEN clearTimeout(timers, snackbarTimerRef) ELSE timers
  /\ updates' = <<>>
  /\ UNCHANGED <<FavRest, storage, favorites, effectPending, snackbarMessage, snackbarVisible,
                 snackbarTimerRef, timerSeq, emitted, hiddenBy, loadedFrom, loaded>>

FavNext ==
  \/ mountOpportunities
  \/ persistFavorites
  \/ handleToggleFavorite
  \/ renderFavorites
  \/ timerFires
  \/ unmountOpportunities

FavSpec == FavInit /\ [][FavNext]_vars

(***************************************************************************)
(* App (part_000, lines 4-7, 28-45, 129-135): the profile read from        *)
(* localStorage when App mounts and written back by the [profile] effect.  *)
(*                                                                         *)
(* A value inside a profile is a string, a number, null or an array of     *)
(* strings.  What JSON.parse returns is a value with its own enumerable    *)
(* properties, the ones an object spread copies: the fields of an object,  *)
(* the indices of an array or of a string, none for the rest.              *)
(***************************************************************************)
Value(t, n, s, items) == [t |-> t, n |-> n, s |-> s, items |-> items]
Text(s) == Value("string", 0, s, <<>>)
Numeral(n) == Value("number", n, <<>>, <<>>)
Null == Value("null", 0, <<>>, <<>>)
List(items) == Value("array", 0, <<>>, items)
Undefined == Value("undefined", 0, <<>>, <<>>)

NoFields == [k \in {} |-> Null]
Parsed(t, fields) == [t |-> t, fields |-> fields]
StoredJson(parsed) == [kind |-> "json", items |-> parsed]

environment == <<"e","n","v","i","r","o","n","m","e","n","t">>
GuestUser == <<"G","u","e","s","t"," ","U","s","e","r">>

\* lines 4-7
DEFAULT_PROFILE ==
  [k \in {"name", "interests"} |->
     IF k = "name" THEN Text(GuestUser) ELSE List(<<environment>>)]

\* { ...a, ...b }
merge(a, b) ==
  [k \in (DOMAIN a) \cup (DOMAIN b) |-> IF k \in DOMAIN b THEN b[k] ELSE a[k]]

\* ...parsed
spread(parsed) == parsed.fields

\* parsed?.interests
interestsOf(parsed) ==
  IF parsed.t = "object" /\ "interests" \in DOMAIN parsed.fields
  THEN parsed.fields["interests"]
  ELSE Undefined

\* Array.isArray
isArray(value) == value.t = "array"

Returned(v) == [threw |-> FALSE, value |-> v]
Thrown == [threw |-> TRUE, value |-> NoFields]

\* lines 31-40: the try block
tryRead(stored) ==
  IF stored.kind \in {"absent", "empty"} THEN Returned(DEFAULT_PROFILE)
  ELSE IF stored.kind = "unparsable" THEN Thrown
  ELSE LET parsed == stored.items
           interests == IF isArray(interestsOf(parsed)) THEN interestsOf(parsed)
                        ELSE DEFAULT_PROFILE["interests"]
       IN  Returned(merge(merge(DEFAULT_PROFILE, spread(parsed)),
                          [k \in {"interests"} |-> interests]))

\* readProfileFromStorage without its catch.
readProfileFromStorageUncaught(stored) == tryRead(stored)

\* readProfileFromStorage giving up the stored profile when its interests
\* are not an array.
readProfileFromStorageDiscards(stored) ==
  IF stored.kind = "json" /\ isArray(interestsOf(stored.items))
  THEN tryRead(stored)
  ELSE Returned(DEFAULT_PROFILE)

\* lines 28-45
readProfileFromStorage(stored) ==
  LET r == tryRead(stored)
  IN  IF r.threw THEN Returned(DEFAULT_PROFILE) ELSE r

\* JSON.stringify(profile), line 134
stringifyProfile(prof) == StoredJson(Parsed("object", prof))

Ann == <<"A","n","n">>
NotAnArray == <<"n","o","t","-","a","n","-","a","r","r","a","y">>

Fields(name, interests, skillsOf) ==
  [k \in {"name", "interests", "skills"} |->
     IF k = "name" THEN name ELSE IF k = "interests" THEN interests ELSE skillsOf]

Only(key, value) == [k \in {key} |-> value]

StoredProfiles ==
  {Absent, Stored("empty", <<>>), Stored("unparsable", <<>>)}
    \cup {StoredJson(parsed) : parsed \in
            {Parsed("object", Only("interests", Text(NotAnArray))),
             Parsed("object", Fields(Text(Ann), Text(NotAnArray), List(<<art>>))),
             Parsed("object", Fields(Text(Ann), List(<<art, edu>>), List(<<>>))),
             Parsed("object", Fields(Numeral(5), Null, Text(Ann))),
             Parsed("object", Only("name", Text(Ann))),
             Parsed("object", NoFields),
             Parsed("array", Only("0", Text(Ann))),
             Parsed("string", merge(Only("0", Text(<<"a">>)), Only("1", Text(<<"b">>)))),
             Parsed("number", NoFields),
             Parsed("null", NoFields)}}

LoadRest == <<allOpportunities, profile, rankVars, pageVars, filterVars, favVars,
              quizVars, routeVars, extraVars>>

LoadInit ==
  /\ allOpportunities = <<>>
  /\ profile = NoProfile
  /\ RankIdle
  /\ PageIdle
  /\ FilterIdle
  /\ QuizIdle
  /\ RouteIdle
  /\ ExtraIdle
  /\ storage \in StoredStates
  /\ favMounted = FALSE
  /\ favorites = <<>>
  /\ updates = <<>>
  /\ effectPending = FALSE
  /\ snackbarMessage = ""
  /\ snackbarVisible = FALSE
  /\ snackbarTimerRef = 0
  /\ timers = {}
  /\ timerSeq = 0
  /\ emitted = <<>>
  /\ hiddenBy = 0
  /\ loadedFrom = Absent
  /\ loaded = <<>>
  /\ storedProfile \in StoredProfiles
  /\ appMounted = FALSE
  /\ appProfile = <<>>
  /\ profileEffectPending = FALSE
  /\ loadRaised = FALSE
  /\ readFrom = Absent

\* line 130: App mounts and reads the profile
mountApp ==
  /\ ~appMounted
  /\ LET r == readProfileFromStorage(storedProfile)
     IN  /\ loadRaised' = (loadRaised \/ r.threw)
         /\ appMounted' = ~r.threw
         /\ appProfile' = r.value
         /\ profileEffectPending' = ~r.threw
  /\ readFrom' = storedProfile
  /\ UNCHANGED <<LoadRest, storedProfile>>

\* lines 133-135: the [profile] effect
persistProfile ==
  /\ appMounted /\ profileEffectPending
  /\ storedProfile' = stringifyProfile(appProfile)
  /\ profileEffectPending' = FALSE
  /\ UNCHANGED <<LoadRest, appMounted, appProfile, loadRaised, readFrom>>

\* the page is closed or reloaded
unmountApp ==
  /\ appMounted /\ ~profileEffectPending /\ ~favMounted
  /\ appMounted' = FALSE
  /\ UNCHANGED <<LoadRest, storedProfile, appProfile, profileEffectPending, loadRaised,
                 readFrom>>

LoadNext ==
  \/ mountApp
  \/ persistProfile
  \/ unmountApp
  \/ (appMounted /\ mountOpportunities)
  \/ persistFavorites
  \/ unmountOpportunities

LoadSpec == LoadInit /\ [][LoadNext]_vars

(***************************************************************************)
(* QuizModal (part_000, lines 415-532), mounted by the Opportunities page  *)
(* with show = isModalOpen (Opportunities.jsx, lines 29, 229, 361-365).    *)
(*                                                                         *)
(* The tags the modal holds are a JSON value: null, undefined, a string    *)
(* with its indices, or an object with its fields, each field a Value.     *)
(* The body of a reply is a JSON value of type t whose tags property, when *)
(* it is an object, is such a value.                                       *)
(***************************************************************************)
MaxSubmissions == 2

TagValue(t, fields) == [t |-> t, fields |-> fields]
UndefinedTags == TagValue("undefined", <<>>)
TagsOf(interests, skillsOf) ==
  TagValue("object", [k \in {"interests", "skills"} |->
                        IF k = "interests" THEN interests ELSE skillsOf])

Data(t, tags) == [t |-> t, tags |-> tags]
TagReply(ok, parses, data) ==
  [settled |-> TRUE, arrives |-> TRUE, ok |-> ok, parses |-> parses, data |-> data]
\* fetch rejects: the network is down
NetworkFailure ==
  [settled |-> TRUE, arrives |-> FALSE, ok |-> FALSE, parses |-> FALSE,
   data |-> Data("null", NoTags)]

\* what can come back from POST /api/get-tags: no response at all, a status
\* outside 200-299, a body that is not JSON, and JSON bodies with and without
\* a tags object holding two lists
WellFormedData == Data("object", TagsOf(List(<<art, edu>>), List(<<rs>>)))
NoListsData == Data("object", TagsOf(List(<<>>), List(<<>>)))
JsonBodies ==
  {WellFormedData,
   NoListsData,
   Data("object", UndefinedTags),
   Data("object", TagValue("null", <<>>)),
   Data("object", TagValue("object", <<>>)),
   Data("object", TagValue("object", Only("interests", List(<<art>>)))),
   Data("object", TagsOf(Text(art), List(<<rs>>))),
   Data("object", TagsOf(List(<<art>>), Null)),
   Data("object", TagValue("string", Only("0", Text(<<"a">>)))),
   Data("array", UndefinedTags),
   Data("null", UndefinedTags)}
Replies ==
  {NetworkFailure}
    \cup {TagReply(FALSE, TRUE, WellFormedData), TagReply(FALSE, FALSE, Data("null", NoTags)),
          TagReply(TRUE, FALSE, Data("null", NoTags))}
    \cup {TagReply(TRUE, TRUE, data) : data \in JsonBodies}

QuizTexts == {<<>>, art}

\* a value in a condition: if (apiResponse)
isTruthy(v) == v.t \in {"object", "array"} \/ (v.t = "string" /\ DOMAIN v.fields # {})

\* apiResponse.interests, apiResponse.skills
prop(v, key) == IF key \in DOMAIN v.fields THEN v.fields[key] ELSE Undefined

\* data.tags, line 443
tagsOf(data) == IF data.t = "object" THEN data.tags ELSE UndefinedTags

\* line 426
combinedDescription(interests, skillsText) ==
  <<"I","n","t","e","r","e","s","t","s",":"," ">> \o interests
    \o <<" ","S","k","i","l","l","s",":"," ">> \o skillsText

\* lines 428-449: what the try block leaves after the fetch has settled
afterFetch(reply) ==
  IF ~reply.arrives
  THEN [threw |-> TRUE, message |-> "Failed to fetch", tags |-> NoTags]
  ELSE IF ~reply.ok
  THEN [threw |-> TRUE, message |-> "Failed to get a response.", tags |-> NoTags]
  ELSE IF ~reply.parses
  THEN [threw |-> TRUE, message |-> "Unexpected token in JSON", tags |-> NoTags]
  ELSE IF reply.data.t = "null"
  THEN [threw |-> TRUE, message |-> "Cannot read properties of null", tags |-> NoTags]
  ELSE [threw |-> FALSE, message |-> "", tags |-> tagsOf(reply.data)]

\* renderContent with the form shown while a request is outstanding.
renderContentFormWhileLoading(loadingNow, errorNow, responseNow) ==
  IF errorNow # "" THEN "error"
  ELSE IF isTruthy(responseNow)
  THEN IF isArray(prop(responseNow, "interests")) /\ isArray(prop(responseNow, "skills"))
       THEN "feedback"
       ELSE "throws"
  ELSE "form"

\* lines 463-519: the screen renderContent returns, or "throws" when
\* .map is called on something that is not an array (lines 475, 481)
renderContent(loadingNow, errorNow, responseNow) ==
  IF loadingNow THEN "processing"
  ELSE IF errorNow # "" THEN "error"
  ELSE IF isTruthy(responseNow)
  THEN IF isArray(prop(responseNow, "interests")) /\ isArray(prop(responseNow, "skills"))
       THEN "feedback"
       ELSE "throws"
  ELSE "form"

\* lines 461, 521-531: what the modal displays
screen ==
  IF ~quizMounted \/ ~show THEN "none" ELSE renderContent(isLoading, apiError, apiResponse)

\* One render of the modal with the given props and state.  A render that
\* throws takes the component down; the variables keep the state that
\* render was given.
commit(showNow, loadingNow, errorNow, responseNow) ==
  /\ show' = showNow
  /\ isLoading' = loadingNow
  /\ apiError' = errorNow
  /\ apiResponse' = responseNow
  /\ IF showNow /\ renderContent(loadingNow, errorNow, responseNow) = "throws"
     THEN quizMounted' = FALSE /\ renderThrew' = TRUE
     ELSE UNCHANGED <<quizMounted, renderThrew>>

QuizRest == <<allOpportunities, profile, rankVars, pageVars, filterVars, favVars, loadVars,
              routeVars, extraVars>>

QuizInit ==
  /\ allOpportunities = <<>>
  /\ profile = NoProfile
  /\ RankIdle
  /\ PageIdle
  /\ FilterIdle
  /\ ShellIdle

\* lines 416-420: the page mounts the modal
mountQuiz ==
  /\ ~quizMounted
  /\ quizMounted' = TRUE
  /\ show' = FALSE
  /\ quizInterests' = <<>>
  /\ quizSkills' = <<>>
  /\ isLoading' = FALSE
  /\ apiResponse' = NoTags
  /\ apiError' = ""
  /\ request' = NoRequest
  /\ replied' = NoReply
  /\ renderThrew' = FALSE
  /\ closedBy' = "none"
  /\ UNCHANGED <<QuizRest, submissions, completed>>

\* the page unmounts; the fetch in flight settles on a component that is gone
unmountQuiz ==
  /\ quizMounted
  /\ quizMounted' = FALSE
  /\ request' = NoRequest
  /\ UNCHANGED <<QuizRest, show, quizInterests, quizSkills, isLoading, apiResponse,
                 apiError, submissions, replied, completed, renderThrew, closedBy>>

\* Opportunities.jsx line 229: setIsModalOpen(true)
openQuiz ==
  /\ quizMounted /\ ~show
  /\ commit(TRUE, isLoading, apiError, apiResponse)
  /\ UNCHANGED <<QuizRest, quizInterests, quizSkills, request, submissions, replied,
                 completed, closedBy>>

\* onClose calling onComplete as the button of the feedback screen does.
onCloseAndSave ==
  /\ quizMounted /\ show
  /\ show' = FALSE
  /\ closedBy' = "onClose"
  /\ completed' = IF isTruthy(apiResponse)
                  THEN completed \cup {[submission |-> submissions, data |-> apiResponse]}
                  ELSE completed
  /\ UNCHANGED <<QuizRest, quizMounted, quizInterests, quizSkills, isLoading, apiResponse,
                 apiError, request, submissions, replied, renderThrew>>

\* lines 522, 526: onClose without saving
onClose ==
  /\ quizMounted /\ show
  /\ show' = FALSE
  /\ closedBy' = "onClose"
  /\ UNCHANGED <<QuizRest, quizMounted, quizInterests, quizSkills, isLoading, apiResponse,
                 apiError, request, submissions, replied, completed, renderThrew>>

\* lines 502, 512: the textareas of the form
typeAnswers ==
  /\ screen = "form"
  /\ quizInterests' \in QuizTexts
  /\ quizSkills' \in QuizTexts
  /\ UNCHANGED <<QuizRest, quizMounted, show, isLoading, apiResponse, apiError, request,
                 submissions, replied, completed, renderThrew, closedBy>>

\* lines 422-433: handleSubmit up to the await
handleSubmit ==
  /\ screen = "form"
  /\ submissions < MaxSubmissions
  /\ submissions' = submissions + 1
  /\ replied' = NoReply
  /\ request' = [sent |-> TRUE,
                 description |-> combinedDescription(quizInterests, quizSkills)]
  /\ isLoading' = TRUE
  /\ apiError' = ""
  /\ apiResponse' = NoTags
  /\ UNCHANGED <<QuizRest, quizMounted, show, quizInterests, quizSkills, completed,
                 renderThrew, closedBy>>

\* lines 435-449: handleSubmit after the await
fetchSettles ==
  /\ quizMounted /\ request.sent
  /\ \E reply \in Replies :
       LET r == afterFetch(reply)
       IN  /\ replied' = reply
           /\ commit(show, FALSE,
                     IF r.threw THEN r.message ELSE apiError,
                     IF r.threw THEN apiResponse ELSE r.tags)
           /\ request' = NoRequest
  /\ UNCHANGED <<QuizRest, quizInterests, quizSkills, submissions, completed, closedBy>>

\* lines 454-459: the button of the feedback screen
handleCloseAndSave ==
  /\ screen = "feedback"
  /\ completed' = IF isTruthy(apiResponse)
                  THEN completed \cup {[submission |-> submissions, data |-> apiResponse]}
                  ELSE completed
  /\ show' = FALSE
  /\ closedBy' = "handleCloseAndSave"
  /\ UNCHANGED <<QuizRest, quizMounted, quizInterests, quizSkills, isLoading, apiResponse,
                 apiError, request, submissions, replied, renderThrew>>

QuizNext ==
  \/ mountQuiz
  \/ unmountQuiz
  \/ openQuiz
  \/ onClose
  \/ typeAnswers
  \/ handleSubmit
  \/ fetchSettles
  \/ handleCloseAndSave

QuizSpec == QuizInit /\ [][QuizNext]_vars

\* fetch settles: its promise is fulfilled or rejected, and the continuation
\* of handleSubmit runs
QuizFairSpec == QuizSpec /\ WF_vars(fetchSettles)

(***************************************************************************)
(* App (part_000, lines 11-26, 124-152): the route, kept in step with      *)
(* window.location.hash.  A hash is the empty string or begins with "#".   *)
(***************************************************************************)
MaxHashchanges == 2

\* lines 11-15: the routes of NAV_ITEMS, each with its spelling
RouteWord ==
  [home |-> <<"h","o","m","e">>,
   opportunities |-> <<"o","p","p","o","r","t","u","n","i","t","i","e","s">>,
   profile |-> <<"p","r","o","f","i","l","e">>]
NAV_ITEMS == <<"home", "opportunities", "profile">>

\* s.replace(/^c/, '') for a single character c
replaceLeading(s, c) == IF s # <<>> /\ Head(s) = c THEN Tail(s) ELSE s

\* parseHashRoute comparing the hash as it is spelt.
parseHashRouteAsSpelt(h) ==
  LET normalized == replaceLeading(replaceLeading(h, "#"), "/")
  IN  IF normalized = <<>> \/ normalized = RouteWord["home"] THEN "home"
      ELSE IF normalized = RouteWord["opportunities"] THEN "opportunities"
      ELSE IF normalized = RouteWord["profile"] THEN "profile"
      ELSE "home"

\* lines 17-26
parseHashRoute(h) ==
  LET raw == replaceLeading(h, "#")
      normalized == toLowerCase(replaceLeading(raw, "/"))
  IN  IF normalized = <<>> \/ normalized = RouteWord["home"] THEN "home"
      ELSE IF normalized = RouteWord["opportunities"] THEN "opportunities"
      ELSE IF normalized = RouteWord["profile"] THEN "profile"
      ELSE "home"

\* lines 124-127
hashForRoute(r) == IF r = "home" THEN <<"#","/">> ELSE <<"#","/">> \o RouteWord[r]

\* the hashes the address bar, a link or the history can set
Hashes ==
  {<<>>, <<"#","/">>, <<"#","/","/">>, <<"#","#">>,
   <<"#","h","o","m","e">>, <<"#","/","H","O","M","E">>,
   <<"#","/","h","o","m","e","s">>,
   <<"#","/","a","b","o","u","t">>,
   <<"#","p","r","o","f","i","l","e">>, <<"#","/","P","r","o","F","I","L","E">>,
   <<"#","/","/","p","r","o","f","i","l","e">>,
   <<"#","/","p","r","o","f","i","l","e","/">>,
   <<"#","/","p","r","o","f">>,
   <<"#","#","p","r","o","f","i","l","e">>,
   <<"#","/"," ","p","r","o","f","i","l","e">>,
   <<"#","O","P","P","O","R","T","U","N","I","T","I","E","S">>,
   <<"#","/","o","p","p","o","r","t","u","n","i","t","i","e","s","?","a">>}
    \cup {hashForRoute(NAV_ITEMS[i]) : i \in 1..Len(NAV_ITEMS)}

RouteRest == <<allOpportunities, profile, rankVars, pageVars, filterVars, favVars, loadVars,
               quizVars, extraVars>>

RouteInit ==
  /\ allOpportunities = <<>>
  /\ profile = NoProfile
  /\ RankIdle
  /\ PageIdle
  /\ FilterIdle
  /\ FavIdle
  /\ LoadIdle
  /\ QuizIdle
  /\ ExtraIdle
  /\ routeMounted = FALSE
  /\ hash \in Hashes
  /\ route = "home"
  /\ syncPending = FALSE
  /\ hashchanges = 0

\* line 131: App mounts, useState(() => parseHashRoute())
mountRoute ==
  /\ ~routeMounted
  /\ routeMounted' = TRUE
  /\ route' = parseHashRoute(hash)
  /\ syncPending' = TRUE
  /\ hashchanges' = 0
  /\ UNCHANGED <<RouteRest, hash>>

\* lines 137-147: the mount effect adds the listener and syncs the route
syncRoute ==
  /\ routeMounted /\ syncPending
  /\ route' = parseHashRoute(hash)
  /\ syncPending' = FALSE
  /\ UNCHANGED <<RouteRest, routeMounted, hash, hashchanges>>

\* the address bar, a link or the history changes the hash; the browser
\* queues a hashchange event for the listener, if there is one
hashEdited ==
  /\ hashchanges < MaxHashchanges
  /\ \E h \in Hashes \ {hash} : hash' = h
  /\ hashchanges' = IF routeMounted /\ ~syncPending THEN hashchanges + 1 ELSE hashchanges
  /\ UNCHANGED <<RouteRest, routeMounted, route, syncPending>>

\* lines 138-140: handleHashChange
handleHashChange ==
  /\ routeMounted /\ ~syncPending /\ hashchanges > 0
  /\ route' = parseHashRoute(hash)
  /\ hashchanges' = hashchanges - 1
  /\ UNCHANGED <<RouteRest, routeMounted, hash, syncPending>>

\* lines 149-152, called from the Header with a route of NAV_ITEMS (line
\* 199) and from handleProfileSave with 'opportunities' (line 166)
navigate ==
  /\ routeMounted /\ ~syncPending
  /\ hashchanges < MaxHashchanges
  /\ \E i \in 1..Len(NAV_ITEMS) :
       LET nextRoute == NAV_ITEMS[i]
       IN  /\ route' = nextRoute
           /\ hash' = hashForRoute(nextRoute)
           /\ hashchanges' = IF hashForRoute(nextRoute) # hash THEN hashchanges + 1
                             ELSE hashchanges
  /\ UNCHANGED <<RouteRest, routeMounted, syncPending>>

\* line 146: the page goes away and the listener with it
unmountRoute ==
  /\ routeMounted
  /\ routeMounted' = FALSE
  /\ syncPending' = FALSE
  /\ hashchanges' = 0
  /\ UNCHANGED <<RouteRest, hash, route>>

RouteNext ==
  \/ mountRoute
  \/ syncRoute
  \/ hashEdited
  \/ handleHashChange
  \/ navigate
  \/ unmountRoute

RouteSpec == RouteInit /\ [][RouteNext]_vars

(***************************************************************************)
(* The catalog under the array methods.  allOpportunities is one array,    *)
(* shared by every function of both files.  map, filter and slice leave    *)
(* the array they are called on alone and return a new one; sort reorders  *)
(* the array it is called on and returns that same array.  A chain of      *)
(* method calls is followed through a store of two arrays, the catalog     *)
(* and the array the chain has built, with the one the chain is at.        *)
(***************************************************************************)
Chain(store, at) == [store |-> store, at |-> at]

\* allOpportunities, the start of every chain
onCatalog == Chain([catalog |-> allOpportunities, work |-> <<>>], "catalog")

\* the array a chain is at
current(c) == c.store[c.at]

\* map, filter, slice
intoNewArray(c, arr) == Chain([c.store EXCEPT !.work = arr], "work")

\* sort
inPlace(c, arr) == Chain([c.store EXCEPT ![c.at] = arr], c.at)

\* simpleRecommendations calling sort on allOpportunities itself.
simpleRecommendationsSortsCatalog(interests) ==
  IF hasNoLength(interests) THEN onCatalog
  ELSE
    LET normalized == [i \in 1..Len(interests) |-> toLowerCase(interests[i])]
        cmp(a, b) == score(b, normalized) - score(a, normalized)
    IN  inPlace(onCatalog, sort(current(onCatalog), cmp))

\* part_000, lines 47-67
simpleRecommendationsChain(interests) ==
  IF hasNoLength(interests) THEN onCatalog
  ELSE
    LET normalized == [i \in 1..Len(interests) |-> toLowerCase(interests[i])]
        wrap(opportunity) ==
          [score |-> score(opportunity, normalized), opportunity |-> opportunity]
        unwrap(item) == item.opportunity
        cmp(a, b) == b.score - a.score
        mapped == intoNewArray(onCatalog, map(current(onCatalog), wrap))
        sorted == inPlace(mapped, sort(current(mapped), cmp))
    IN  intoNewArray(sorted, map(current(sorted), unwrap))

\* part_000, lines 101-108
rankedOpportunitiesChain(ranking) ==
  LET from == current(onCatalog)
      mapped == intoNewArray(onCatalog,
                  [index \in 1..Len(from) |->
                     withRank(from[index], indexOf(ranking, index))])
      kept == intoNewArray(mapped,
                filterSeq(current(mapped),
                          [i \in 1..Len(current(mapped)) |-> current(mapped)[i].rank >= 0]))
      cmp(a, b) == a.rank - b.rank
      sorted == inPlace(kept, sort(current(kept), cmp))
  IN  intoNewArray(sorted, slice0(current(sorted), TopN))

\* part_000, lines 69-115
getAIRecommendationsChain(interests, resp) ==
  IF tryBlock(resp).exit = "return"
  THEN rankedOpportunitiesChain(resp.items)
  ELSE simpleRecommendationsChain(interests)

\* part_000, lines 117-122
recommendOpportunitiesChain(interests, resp) ==
  IF hasNoLength(interests) THEN onCatalog
  ELSE
    LET awaited == getAIRecommendationsChain(interests, resp)
    IN  IF Len(current(awaited)) > 0 THEN awaited ELSE Chain(awaited.store, "catalog")

\* Opportunities.jsx, lines 108-194
filteredChain(search, location, skill, interest, range) ==
  LET normalizedSearch == toLowerCase(trim(search))
      userInterestSet == lowerSet(profile.interests)
      userSkillSet == lowerSet(profile.skills)
      from == current(onCatalog)
      indexed == intoNewArray(onCatalog,
                   [index \in 1..Len(from) |->
                      [opportunity |-> from[index], index |-> index]])
      kept == intoNewArray(indexed,
                filterSeq(current(indexed),
                  [i \in 1..Len(current(indexed)) |->
                     passesFilters(current(indexed)[i].opportunity, normalizedSearch,
                                   location, skill, interest, range)]))
      withOverlaps(item) ==
        [opportunity |-> item.opportunity,
         index |-> item.index,
         interestOverlap |-> overlap(item.opportunity.interests, userInterestSet),
         skillOverlap |-> overlap(item.opportunity.skills, userSkillSet)]
      scored == intoNewArray(kept, map(current(kept), withOverlaps))
      cmp(a, b) ==
        IF b.interestOverlap # a.interestOverlap
        THEN b.interestOverlap - a.interestOverlap
        ELSE IF b.skillOverlap # a.skillOverlap
             THEN b.skillOverlap - a.skillOverlap
             ELSE a.index - b.index
      sorted == inPlace(scored, sort(current(scored), cmp))
      unwrap(item) == item.opportunity
  IN  intoNewArray(sorted, map(current(sorted), unwrap))

\* the catalogs imported: the best match is not always first
CatalogLoads ==
  {[i \in 1..Len(c) |-> [c[i] EXCEPT !.id = i]] :
     c \in {<<>>} \cup [1..3 -> FilterTemplates]}

CatalogInterests == {undefinedList, <<>>, <<ENV>>, <<edu, art>>}
CatalogResponses ==
  {NoResponse, Response("contentList", TRUE, <<>>), Response("contentList", TRUE, <<3, 1>>),
   Response("contentList", FALSE, <<2, 4, 2>>)}

CatalogRest == <<rankVars, pageVars, loadVars, quizVars, routeVars, badgeVars, formVars>>

CatalogInit ==
  /\ allOpportunities \in CatalogLoads
  /\ catalogAtLoad = allOpportunities
  /\ returned = <<>>
  /\ profile \in FilterProfiles
  /\ RankIdle
  /\ PageIdle
  /\ FilterIdle
  /\ FavIdle
  /\ LoadIdle
  /\ QuizIdle
  /\ RouteIdle
  /\ BadgeIdle
  /\ FormIdle

\* an operation has run its chain: what the chain left in the catalog is
\* the catalog from now on
ran(c) ==
  /\ allOpportunities' = c.store.catalog
  /\ returned' = current(c)
  /\ UNCHANGED <<catalogAtLoad, profile, CatalogRest>>

rankLocally ==
  /\ \E interests \in CatalogInterests : ran(simpleRecommendationsChain(interests))
  /\ UNCHANGED <<filterVars, favVars>>

rankRemotely ==
  /\ \E interests \in CatalogInterests, resp \in CatalogResponses :
       ran(recommendOpportunitiesChain(interests, resp))
  /\ UNCHANGED <<filterVars, favVars>>

\* a filter control changes and the useMemo of lines 108-194 runs again
filterAndSort ==
  /\ \E search \in SearchTerms, skill \in {all, rs} :
       /\ searchTerm' = search
       /\ skillFilter' = skill
       /\ ran(filteredChain(search, locationFilter, skill, interestFilter, dateRange))
  /\ UNCHANGED <<locationFilter, interestFilter, dateRange, timeZone, favVars>>

\* Opportunities.jsx, lines 53-73: the updater, which reads favorites only
toggleFavourite ==
  /\ \E id \in {Num(1), Num(2), Str(Three)} :
       favorites' = uniq(nextFavorites(normalizeAll(favorites), normalizeFavoriteId(id)))
  /\ UNCHANGED <<allOpportunities, profile, catalogVars, CatalogRest, filterVars,
                 storage, favMounted, updates, effectPending, snackbarMessage,
                 snackbarVisible, snackbarTimerRef, timers, timerSeq, emitted, hiddenBy,
                 loadedFrom, loaded>>

CatalogNext ==
  \/ rankLocally
  \/ rankRemotely
  \/ filterAndSort
  \/ toggleFavourite

CatalogSpec == CatalogInit /\ [][CatalogNext]_vars

(***************************************************************************)
(* Opportunities.jsx, lines 321-330: the cards of the page, one for each   *)
(* opportunity of the filtered list, each with its favourite badge.  Two   *)
(* runs of the page on the same catalog, profile and filters are followed  *)
(* side by side; they toggle favourites independently.                     *)
(***************************************************************************)
\* the cards with the favourites moved to the front.
cardsFavouritesFirst(favs) ==
  LET card(opportunity) ==
        [opportunity |-> opportunity, isFavorite |-> includes(favs, Num(opportunity.id))]
      listed == map(filteredOpportunities, card)
      cmp(a, b) == (IF a.isFavorite THEN 0 ELSE 1) - (IF b.isFavorite THEN 0 ELSE 1)
  IN  sort(listed, cmp)

\* lines 321-330; a list of up to six opportunities is shown whole whether
\* or not the quiz has been completed (slice(0, 6), line 321)
cards(favs) ==
  LET card(opportunity) ==
        [opportunity |-> opportunity, isFavorite |-> includes(favs, Num(opportunity.id))]
  IN  map(filteredOpportunities, card)

BadgeLoads == {c \in CatalogLoads : Len(c) = 3 /\ c[1].interests = <<edu>>}

BadgeInit ==
  /\ allOpportunities \in BadgeLoads
  /\ catalogAtLoad = allOpportunities
  /\ returned = <<>>
  /\ profile \in FilterProfiles
  /\ RankIdle
  /\ PageIdle
  /\ FilterIdle
  /\ FavIdle
  /\ LoadIdle
  /\ QuizIdle
  /\ RouteIdle
  /\ BadgeIdle
  /\ FormIdle

\* lines 53-73 in the second run
toggleFavouriteOther ==
  /\ \E id \in {Num(1), Num(2), Str(Three)} :
       favoritesOther' =
         uniq(nextFavorites(normalizeAll(favoritesOther), normalizeFavoriteId(id)))
  /\ UNCHANGED <<allOpportunities, profile, rankVars, pageVars, filterVars, favVars,
                 loadVars, quizVars, routeVars, catalogVars, formVars>>

BadgeNext ==
  \/ filterAndSort
  \/ toggleFavourite
  \/ toggleFavouriteOther

BadgeSpec == BadgeInit /\ [][BadgeNext]_vars

(***************************************************************************)
(* Profile: the profile page, defined in src/src/pages/Profile.jsx and,    *)
(* with the interests and skills tags, in src/unnamed/part_001.  A profile *)
(* is an object, field name -> Value.  The page is given the profile and   *)
(* onSave; what onSave is given becomes the profile the page is given      *)
(* next, as handleProfileSave does (part_000, lines 162-169).              *)
(***************************************************************************)
MaxSaves == 1

PagesFile == "src/src/pages/Profile.jsx"
TagsFile == "src/unnamed/part_001"

\* profile.key
get(prof, key) == IF key \in DOMAIN prof THEN prof[key] ELSE Undefined

\* value ?? fallback
orElse(value, fallback) == IF value.t \in {"undefined", "null"} THEN fallback ELSE value

\* a || b for strings
orText(a, b) == IF a = <<>> THEN b ELSE a

VolunteerEmail ==
  <<"v","o","l","u","n","t","e","e","r","@","e","x","a","m","p","l","e",".","c","o","m">>

\* lines 9-13 (part_001: 16-20): defaultProfile is not passed
fallbackProfile ==
  [name |-> Text(GuestUser), interests |-> List(<<environment>>),
   email |-> Text(VolunteerEmail)]

\* lines 14-17, 21-26 (part_001: 21-27, 32-41): the state the page holds for
\* a profile
formOf(file, prof) ==
  [name |-> orElse(get(prof, "name"), Text(<<>>)).s,
   email |-> orElse(get(prof, "email"), Text(<<>>)).s,
   password |-> orElse(get(prof, "password"), Text(<<>>)).s,
   story |-> orElse(get(prof, "story"), Text(<<>>)).s,
   interests |-> IF file = TagsFile
                 THEN orElse(get(prof, "interests"), List(<<>>)).items ELSE <<>>,
   skills |-> IF file = TagsFile
              THEN orElse(get(prof, "skills"), List(<<>>)).items ELSE <<>>]

\* the fields both files pass to onSave from "Save profile"
submittedTexts(f) ==
  [name |-> Text(orText(trim(f.name), fallbackProfile.name.s)),
   email |-> Text(orText(trim(f.email), fallbackProfile.email.s)),
   password |-> Text(f.password),
   story |-> Text(trim(f.story))]

\* Profile.jsx, lines 85-97; part_001, lines 108-122
submitted(file, prof, f) ==
  IF file = PagesFile
  THEN merge(submittedTexts(f),
             Only("interests", IF isArray(get(prof, "interests"))
                               THEN get(prof, "interests")
                               ELSE fallbackProfile.interests))
  ELSE merge(submittedTexts(f),
             merge(Only("interests", List(f.interests)), Only("skills", List(f.skills))))

\* the story form passing what the page holds, as "Save profile" does.
storySubmittedFromForm(file, prof, f) == submitted(file, prof, f)

\* Profile.jsx, lines 179-189; part_001, lines 204-214
storySubmitted(file, prof, f) == merge(prof, Only("story", Text(trim(f.story))))

\* current.filter((tag) => tag !== tagToRemove)
without(list, tag) == filterSeq(list, [i \in 1..Len(list) |-> list[i] # tag])

\* what is typed into a control: text with white space around it in the
\* name and the story, nothing in the email, a password ending in a space
TypedName == <<" ","B","o"," ">>
TypedEmail == <<>>
TypedPassword == <<"p","w"," ">>
TypedStory == <<" ","g","o"," "," ">>

FullProfile ==
  [name |-> Text(Ann), email |-> Text(<<"a","@","b">>), password |-> Text(<<"x">>),
   story |-> Text(<<"h","i">>), interests |-> List(<<art>>),
   skills |-> List(<<rs, Pq>>)]
ProfileStarts ==
  {FullProfile, DEFAULT_PROFILE, merge(DEFAULT_PROFILE, Only("skills", List(<<rs>>)))}

ProfileRest == <<allOpportunities, profile, rankVars, pageVars, filterVars, favVars,
                 quizVars, routeVars, catalogVars, badgeVars, storedProfile, appMounted,
                 profileEffectPending, loadRaised, readFrom>>

ProfileInit ==
  /\ allOpportunities = <<>>
  /\ profile = NoProfile
  /\ RankIdle
  /\ PageIdle
  /\ FilterIdle
  /\ FavIdle
  /\ QuizIdle
  /\ RouteIdle
  /\ CatalogIdle
  /\ BadgeIdle
  /\ storedProfile = Absent
  /\ appMounted = FALSE
  /\ profileEffectPending = FALSE
  /\ loadRaised = FALSE
  /\ readFrom = Absent
  /\ appProfile \in ProfileStarts
  /\ profileFile \in {PagesFile, TagsFile}
  /\ form = formOf(profileFile, appProfile)
  /\ removed = {}
  /\ lastSave = NoSave

\* onChange of the name, email, password and story controls
setName ==
  /\ form.name # TypedName
  /\ form' = [form EXCEPT !.name = TypedName]
  /\ UNCHANGED <<ProfileRest, appProfile, profileFile, removed, lastSave>>

setEmail ==
  /\ form.email # TypedEmail
  /\ form' = [form EXCEPT !.email = TypedEmail]
  /\ UNCHANGED <<ProfileRest, appProfile, profileFile, removed, lastSave>>

setPassword ==
  /\ form.password # TypedPassword
  /\ form' = [form EXCEPT !.password = TypedPassword]
  /\ UNCHANGED <<ProfileRest, appProfile, profileFile, removed, lastSave>>

setStory ==
  /\ form.story # TypedStory
  /\ form' = [form EXCEPT !.story = TypedStory]
  /\ UNCHANGED <<ProfileRest, appProfile, profileFile, removed, lastSave>>

\* part_001, lines 100-102
handleRemoveInterest ==
  /\ profileFile = TagsFile
  /\ \E i \in 1..Len(form.interests) :
       /\ form' = [form EXCEPT !.interests = without(form.interests, form.interests[i])]
       /\ removed' = removed \cup {[of |-> "interests", tag |-> form.interests[i]]}
  /\ UNCHANGED <<ProfileRest, appProfile, profileFile, lastSave>>

\* part_001, lines 104-106
handleRemoveSkill ==
  /\ profileFile = TagsFile
  /\ \E i \in 1..Len(form.skills) :
       /\ form' = [form EXCEPT !.skills = without(form.skills, form.skills[i])]
       /\ removed' = removed \cup {[of |-> "skills", tag |-> form.skills[i]]}
  /\ UNCHANGED <<ProfileRest, appProfile, profileFile, lastSave>>

\* onSave(next): the page is given next as its profile and fills its state
\* from it
onSave(by, next) ==
  /\ lastSave.nth < MaxSaves
  /\ lastSave' = [nth |-> lastSave.nth + 1, by |-> by, payload |-> next,
                  before |-> appProfile, typed |-> form, without |-> removed]
  /\ appProfile' = next
  /\ form' = formOf(profileFile, next)
  /\ removed' = {}
  /\ UNCHANGED <<ProfileRest, profileFile>>

\* "Save profile"
saveProfile == onSave("profile", submitted(profileFile, appProfile, form))

\* "Save story"
saveStory == onSave("story", storySubmitted(profileFile, appProfile, form))

ProfileNext ==
  \/ setName
  \/ setEmail
  \/ setPassword
  \/ setStory
  \/ handleRemoveInterest
  \/ handleRemoveSkill
  \/ saveProfile
  \/ saveStory

ProfileSpec == ProfileInit /\ [][ProfileNext]_vars

(***************************************************************************)
(* Properties of the favourites.                                           *)
(***************************************************************************)
\* The decimal numeral of a natural number.
RECURSIVE DecimalText(_)
DecimalText(n) ==
  IF n < 10 THEN <<DigitChars[n + 1]>>
  ELSE Append(DecimalText(n \div 10), DigitChars[(n % 10) + 1])

\* a and b are the same favourite: equal, or a number and its numeral.
SameFavourite(a, b) ==
  \/ a = b
  \/ a.t = "number" /\ b.t = "string" /\ b.s = DecimalText(a.n)
  \/ b.t = "number" /\ a.t = "string" /\ a.s = DecimalText(b.n)

Member(favs, id) == \E k \in 1..Len(favs) : SameFavourite(favs[k], id)

Now == Instance(favorites, snackbarMessage, snackbarVisible, snackbarTimerRef,
                timers, timerSeq, <<>>)

\* C12: toggling the same id twice in succession leaves the membership of
\* the id as it was: for the two updaters applied to any reachable
\* favourites, for two toggles applied by one render, and for the toggle of
\* the second definition of Opportunities.
C12_ToggleTwiceRestores ==
  /\ \A id \in ToggleIds :
       /\ Member(updater(updater(Now, id), id).favorites, id) <=> Member(favorites, id)
       /\ includes(handleToggleFavoriteSecond(handleToggleFavoriteSecond(favorites, id), id), id)
            <=> includes(favorites, id)
  /\ \A k \in 1..(Len(emitted) - 1) :
       emitted[k].id = emitted[k + 1].id
         => (Member(emitted[k + 1].after, emitted[k].id)
               <=> Member(emitted[k].before, emitted[k].id))

\* One render applied two toggles of a favourite that was present: it was
\* removed and added back.
C12_Witness ==
  /\ Len(emitted) = 2
  /\ emitted[1].id = emitted[2].id
  /\ Member(emitted[1].before, emitted[1].id)
  /\ ~Member(emitted[1].after, emitted[1].id)
  /\ Member(favorites, emitted[1].id)

IsNumeral(v) == v.t = "string" /\ v.s # <<>> /\ \A k \in 1..Len(v.s) : isDigit(v.s[k])

\* C13: a numeral and its number are one favourite.  Every numeral stored is
\* loaded as its number; the favourites never hold a numeral, nor one
\* favourite twice; and a toggle with the numeral does what a toggle with
\* the number does.
C13_NumeralsAreNumbers ==
  /\ (favMounted /\ loadedFrom.kind = "list")
       => \A k \in 1..Len(loadedFrom.items) :
            IsNumeral(loadedFrom.items[k])
              => /\ \E j \in 1..Len(loaded) :
                      loaded[j].t = "number" /\ SameFavourite(loaded[j], loadedFrom.items[k])
                 /\ ~includes(loaded, loadedFrom.items[k])
  /\ \A k \in 1..Len(favorites) :
       /\ ~IsNumeral(favorites[k])
       /\ \A j \in 1..Len(favorites) : SameFavourite(favorites[j], favorites[k]) => j = k
  /\ \A id \in ToggleIds :
       id.t = "number"
         => updater(Now, Str(DecimalText(id.n))).favorites = updater(Now, id).favorites

\* Scenario B: ["3"] was stored, the favourites started as [3], and the
\* toggle of 3 left them empty.
C13_Witness ==
  /\ loadedFrom = Stored("list", <<Str(Three)>>)
  /\ loaded = <<Num(3)>>
  /\ Len(emitted) = 1
  /\ emitted[1].id = Num(3)
  /\ emitted[1].before = <<Num(3)>>
  /\ favorites = <<>>

\* C14: once the effect of a render has run, the value under 'favorites' is
\* an array holding the favourites in memory, each as it is, in their order.
C14_StoredIsInMemory ==
  (favMounted /\ ~effectPending)
    => /\ storage.kind = "list"
       /\ Len(storage.items) = Len(favorites)
       /\ \A k \in 1..Len(favorites) : storage.items[k] = favorites[k]

\* A toggle changed the favourites and the change has been stored.
C14_Witness ==
  /\ favMounted /\ ~effectPending
  /\ emitted # <<>>
  /\ favorites # loaded
  /\ favorites # <<>>
  /\ storage # loadedFrom

\* At most one timeout is pending, and only that of the latest toggle.
C15_OneTimer ==
  /\ Cardinality(timers) <= 1
  /\ timers \subseteq {timerSeq}
  /\ (favMounted /\ snackbarVisible) => timers = {timerSeq}

\* C15: at most one hide-timer is pending at any moment, it is the timer of
\* the most recent toggle, and the snackbar of a mounted page is hidden only
\* by that timer firing.
C15_LatestTimerHides ==
  /\ []C15_OneTimer
  /\ [][(favMounted /\ snackbarVisible /\ ~snackbarVisible')
          => (timers = {timerSeq} /\ timers' = {} /\ hiddenBy' = timerSeq)]_vars

\* Two toggles were applied by one render, so the timer of the first was
\* cancelled; the timer of the second fired and hid the snackbar.
C15_Witness ==
  /\ favMounted
  /\ Len(emitted) = 2
  /\ timerSeq = 2
  /\ hiddenBy = 2
  /\ ~snackbarVisible
  /\ timers = {}

\* C16: each toggle adds the id when it was absent and says 'Added', removes
\* it when it was present and says 'Removed', and leaves the other
\* favourites alone; a toggle starts from what the toggle before it left,
\* and the snackbar holds the message of the last one.
C16_ToggleFlipsAndSaysSo ==
  /\ \A k \in 1..Len(emitted) :
       LET e == emitted[k]
       IN  /\ Member(e.before, e.id)
             => ~Member(e.after, e.id) /\ e.message = Removed
           /\ ~Member(e.before, e.id)
             => Member(e.after, e.id) /\ e.message = Added
           /\ \A other \in ToggleIds :
                ~SameFavourite(other, e.id)
                  => (Member(e.after, other) <=> Member(e.before, other))
           /\ k > 1 => e.before = emitted[k - 1].after
  /\ (favMounted /\ emitted # <<>>)
       => /\ snackbarMessage = emitted[Len(emitted)].message
          /\ favorites = emitted[Len(emitted)].after

\* Two toggles of an absent id in quick succession: added, then removed.
C16_Witness ==
  /\ favMounted
  /\ Len(emitted) = 2
  /\ emitted[1].id = emitted[2].id
  /\ emitted[1].message = Added
  /\ emitted[2].message = Removed
  /\ snackbarMessage = Removed

(***************************************************************************)
(* Properties of the rehydrated profile.                                   *)
(***************************************************************************)
\* C17: when the stored profile parses as an object whose interests are not
\* a list, the profile App starts with has the default interests and every
\* other stored field with its stored value; the interests of every profile
\* App starts with are a list.
C17_InterestsRepaired ==
  /\ (appMounted /\ readFrom.kind = "json" /\ readFrom.items.t = "object")
       => LET fields == readFrom.items.fields
          IN  /\ ("interests" \notin DOMAIN fields \/ fields["interests"].t # "array")
                   => appProfile["interests"] = List(<<environment>>)
              /\ \A k \in (DOMAIN fields) \ {"interests"} :
                   k \in DOMAIN appProfile /\ appProfile[k] = fields[k]
  /\ appMounted
       => "interests" \in DOMAIN appProfile /\ appProfile["interests"].t = "array"

\* Scenario C with a name and skills stored beside the broken interests.
C17_Witness ==
  /\ appMounted
  /\ readFrom.kind = "json"
  /\ readFrom.items.t = "object"
  /\ DOMAIN readFrom.items.fields = {"name", "interests", "skills"}
  /\ readFrom.items.fields["interests"] = Text(NotAnArray)
  /\ appProfile["name"] = Text(Ann)
  /\ appProfile["skills"] = List(<<art>>)
  /\ appProfile["interests"] = List(<<environment>>)

\* C18: loading never raises; an absent or unparsable stored profile gives
\* the default profile, and absent, unparsable or non-list stored
\* favourites give no favourites.
C18_LoadNeverRaises ==
  /\ ~loadRaised
  /\ (appMounted /\ readFrom.kind \in {"absent", "unparsable"})
       => appProfile = DEFAULT_PROFILE
  /\ (favMounted /\ loadedFrom.kind \in {"absent", "unparsable", "falsy", "nonlist"})
       => loaded = <<>> /\ (effectPending => favorites = <<>>)

\* The stored profile did not parse and the stored favourites were not a
\* list: the page runs with the default profile and no favourites.
C18_Witness ==
  /\ appMounted /\ favMounted
  /\ readFrom.kind = "unparsable"
  /\ loadedFrom.kind = "nonlist"
  /\ appProfile = DEFAULT_PROFILE
  /\ favorites = <<>>

(***************************************************************************)
(* Properties of the quiz.                                                 *)
(***************************************************************************)
\* The body of the reply is JSON with a tags object holding an interests
\* list and a skills list.
HasTags(reply) ==
  /\ reply.data.t = "object"
  /\ reply.data.tags.t = "object"
  /\ isArray(prop(reply.data.tags, "interests"))
  /\ isArray(prop(reply.data.tags, "skills"))

Unreadable(reply) == reply.settled /\ reply.arrives /\ (~reply.ok \/ ~reply.parses)
Malformed(reply) ==
  reply.settled /\ reply.arrives /\ (~reply.ok \/ ~reply.parses \/ ~HasTags(reply))

ErrorShown ==
  /\ ~isLoading
  /\ apiError # ""
  /\ (quizMounted /\ show) => screen = "error"
NoTagsHeld == apiResponse.t \in {"null", "undefined"}
NotCompleted == \A call \in completed : call.submission # submissions

\* A reply that is not 2xx or whose body is not JSON ends the submission with
\* the error shown, no tags held and no call of onComplete.
QuizUnreadableIsAnError ==
  Unreadable(replied) => (ErrorShown /\ NoTagsHeld /\ ~renderThrew /\ NotCompleted)

\* Whatever the reply lacks, onComplete is not called for that submission.
QuizMalformedNeverCompletes == Malformed(replied) => NotCompleted

\* C19: when the tag-extraction response is not 2xx, or its body is not JSON,
\* or the body lacks a tags object with interests and skills lists, the
\* submission ends with the inline error shown and no tags held, and
\* onComplete is not called with any data for that submission.
C19_MalformedReplyIsAnError ==
  Malformed(replied) => (ErrorShown /\ NoTagsHeld /\ ~renderThrew /\ NotCompleted)

\* A well-formed reply is completed with its tags.
QuizCompletes ==
  /\ replied.settled /\ ~Malformed(replied) /\ replied.arrives
  /\ \E call \in completed : call.submission = submissions /\ call.data = replied.data.tags

(***************************************************************************)
(* Properties of the route.                                                *)
(***************************************************************************)
Routes == {"home", "opportunities", "profile"}

\* Two characters are the same letter, whatever their case.
SameLetter(a, b) ==
  \/ a = b
  \/ a \in UpperSet /\ LowerOf[a] = b
  \/ b \in UpperSet /\ LowerOf[b] = a

\* The hash is "#" or "#/" followed by the word, in any case.
Names(h, word) ==
  \E lead \in {<<"#">>, <<"#","/">>} :
     /\ Len(h) = Len(lead) + Len(word)
     /\ SubSeq(h, 1, Len(lead)) = lead
     /\ \A i \in 1..Len(word) : SameLetter(h[Len(lead) + i], word[i])

RouteNamed(h) ==
  IF \E r \in Routes : Names(h, RouteWord[r])
  THEN CHOOSE r \in Routes : Names(h, RouteWord[r])
  ELSE "home"

RouteSettled == routeMounted /\ ~syncPending /\ hashchanges = 0

\* C20: the route is always one of home, opportunities and profile; once the
\* hash changes have been handled it is the route the hash names, in any
\* case and with or without a leading slash, and home for every other hash,
\* the empty one included.
C20_RouteIsWhatTheHashNames ==
  /\ route \in Routes
  /\ \A h \in Hashes : parseHashRoute(h) = RouteNamed(h)
  /\ RouteSettled => route = RouteNamed(hash)

\* The hash "#/ProFILE" has been handled and the route is profile.
C20_Witness ==
  /\ RouteSettled
  /\ hash = <<"#","/","P","r","o","F","I","L","E">>
  /\ route = "profile"

(***************************************************************************)
(* Properties of the catalog.                                              *)
(***************************************************************************)
\* C21: no operation changes the catalog; after any sequence of local
\* ranking, remote ranking, filtering with its sort and favourite toggling
\* it holds the opportunities it held at load, with the same field values,
\* in the same order.
C21_CatalogAsLoaded == allOpportunities = catalogAtLoad

\* A ranking has returned the catalog's opportunities in another order.
C21_Witness ==
  /\ Len(returned) = Len(allOpportunities)
  /\ Len(returned) > 1
  /\ \A i \in 1..Len(returned) : "id" \in DOMAIN returned[i]
  /\ returned[1].id # allOpportunities[1].id
  /\ favorites # <<>>

(***************************************************************************)
(* Properties of the favourite badge.                                      *)
(***************************************************************************)
Listed(shown) == [i \in 1..Len(shown) |-> shown[i].opportunity]
Range(list) == {list[i] : i \in 1..Len(list)}

Latest == requests[Len(requests)]

\* Request i completes in this step and is not the one issued last.
SupersededCompletes ==
  \E i \in 1..(Len(requests) - 1) :
     /\ Len(requests') = Len(requests)
     /\ ~requests[i].settled
     /\ requests'[i].settled

\* While the page is mounted, loading is on exactly while the request
\* issued last is outstanding, and once it has completed the list is its
\* result or the fallback.
LoadingFollowsLatest ==
  mounted =>
    /\ loading = ~Latest.settled
    /\ Latest.settled => recommended = ResultOf(Latest)

\* C23: the loading indicator is on from the moment a ranking request is
\* issued until the request issued last completes; the completion of a
\* superseded request leaves loading and the list as they are, and when the
\* request issued last completes loading turns off and the list shown is
\* that request's result.
C23_LoadingUntilLatestCompletes ==
  /\ []LoadingFollowsLatest
  /\ [][SupersededCompletes => (loading' = loading /\ recommended' = recommended)]_vars
  /\ [][(mounted /\ ~Latest.settled /\ mounted' /\ Len(requests') = Len(requests)
           /\ requests'[Len(requests)].settled)
          => (loading /\ ~loading' /\ recommended' = ResultOf(requests'[Len(requests)]))]_vars

\* A superseded request has completed, the one issued last has not, and the
\* page is still loading.
C23_Witness ==
  /\ mounted
  /\ Len(requests) = 2
  /\ requests[1].settled
  /\ ~requests[2].settled
  /\ requests[1].ignore
  /\ ResultOf(requests[1]) # <<>>
  /\ recommended = <<>>
  /\ loading

(***************************************************************************)
(* Properties of OpportunitiesPage after it is unmounted.                  *)
(***************************************************************************)
ResponseArrives ==
  \E i \in 1..Len(requests) :
     /\ Len(requests') = Len(requests)
     /\ ~requests[i].settled
     /\ requests'[i].settled

\* C28: a ranking response, success or failure, that arrives after
\* OpportunitiesPage has been unmounted changes none of recommended, loading
\* and error.
C28_ResponseAfterUnmountIgnored ==
  [][(~mounted /\ ResponseArrives)
       => (recommended' = recommended /\ loading' = loading /\ error' = error)]_vars

\* The page was unmounted while loading; the response of its request has
\* arrived since, with a list to show, and the view state is as it was.
C28_Witness ==
  /\ ~mounted
  /\ Len(requests) = 1
  /\ requests[1].settled
  /\ ResultOf(requests[1]) # <<>>
  /\ recommended = <<>>
  /\ loading
  /\ error = ""

(***************************************************************************)
(* Properties of the profile page.                                         *)
(***************************************************************************)
\* The items of a list-valued field, none when the field is absent.
ItemsOf(prof, key) == orElse(get(prof, key), List(<<>>)).items

\* The skills the profile had when the form was submitted, less the tags
\* removed in the form.
SkillsAtSubmit ==
  LET had == ItemsOf(lastSave.before, "skills")
  IN  filterSeq(had, [i \in 1..Len(had) |->
                        [of |-> "skills", tag |-> had[i]] \notin lastSave.without])

\* In the file with the tags, "Save profile" passes the skills of the form.
SaveProfileKeepsSkillsWithTags ==
  (lastSave.by = "profile" /\ profileFile = TagsFile)
    => ItemsOf(lastSave.payload, "skills") = SkillsAtSubmit

\* C24: "Save profile" passes onSave a profile whose skills are the
\* profile's current skills, less the tags removed in the form; a save of
\* name, email or password never drops or empties the skills the profile
\* had.
C24_SaveProfileKeepsSkills ==
  lastSave.by = "profile" => ItemsOf(lastSave.payload, "skills") = SkillsAtSubmit

\* t is s without the white space at its ends.
IsTrimOf(t, s) ==
  \E i \in 1..(Len(s) + 1), j \in 0..Len(s) :
     /\ t = SubSeq(s, i, j)
     /\ \A k \in 1..(i - 1) : isSpace(s[k])
     /\ \A k \in (j + 1)..Len(s) : isSpace(s[k])
     /\ t # <<>> => (~isSpace(t[1]) /\ ~isSpace(t[Len(t)]))

\* C25: "Save story" passes onSave the profile the page was given with only
\* story replaced, by the story text without the white space at its ends:
\* name, email, password, interests and skills are those of that profile,
\* whatever was typed into the other controls and whichever tags were
\* removed.
C25_SaveStoryReplacesStoryOnly ==
  lastSave.by = "story" =>
    /\ DOMAIN lastSave.payload = DOMAIN lastSave.before \cup {"story"}
    /\ \A key \in DOMAIN lastSave.before \ {"story"} :
          lastSave.payload[key] = lastSave.before[key]
    /\ lastSave.payload["story"].t = "string"
    /\ IsTrimOf(lastSave.payload["story"].s, lastSave.typed.story)

\* The story was saved with another name typed and a skill tag removed, and
\* the profile passed on has the name and the skills it had.
C25_Witness ==
  /\ lastSave.by = "story"
  /\ lastSave.typed.story = TypedStory
  /\ lastSave.typed.name = TypedName
  /\ lastSave.before["name"] = Text(Ann)
  /\ lastSave.payload["name"] = Text(Ann)
  /\ lastSave.without # {}
  /\ lastSave.typed.skills = <<Pq>>
  /\ lastSave.payload["skills"] = List(<<rs, Pq>>)
  /\ lastSave.payload["story"] = Text(<<"g","o">>)

(***************************************************************************)
(* Properties of the favourites as a set.                                  *)
(***************************************************************************)
NoIdTwice(favs) ==
  \A j, k \in 1..Len(favs) :
     normalizeFavoriteId(favs[j]) = normalizeFavoriteId(favs[k]) => j = k

\* C26: the favourites in memory never hold the same normalized id twice:
\* not as loaded from any stored list, with repeated entries and with a
\* number next to its numeral, and not after any toggle.
C26_NoIdTwice ==
  /\ NoIdTwice(favorites)
  /\ favMounted => NoIdTwice(loaded)
  /\ \A k \in 1..Len(emitted) : NoIdTwice(emitted[k].after)
  /\ \A id \in ToggleIds : NoIdTwice(updater(Now, id).favorites)

\* ["3", 3, 3, "x", "x"] was stored and loaded as [3, "x"]; 3 was removed
\* and added back by its numeral.
C26_Witness ==
  /\ loadedFrom = Stored("list", <<Str(Three), Num(3), Num(3), Str(Ex), Str(Ex)>>)
  /\ loaded = <<Num(3), Str(Ex)>>
  /\ Len(emitted) = 2
  /\ emitted[1].id = Num(3)
  /\ emitted[2].id = Str(Three)
  /\ favorites = <<Str(Ex), Num(3)>>

\* The favourites other than id, in their order.
Others(favs, id) ==
  filterSeq(favs, [k \in 1..Len(favs) |-> ~SameFavourite(favs[k], id)])

\* C27: a toggle of id changes the membership of id only: the other
\* favourites are the same after it as before it, in the same order.
C27_OthersKeepTheirOrder ==
  /\ \A k \in 1..Len(emitted) :
       Others(emitted[k].after, emitted[k].id) = Others(emitted[k].before, emitted[k].id)
  /\ \A id \in ToggleIds :
       Others(updater(Now, id).favorites, id) = Others(favorites, id)

\* 3 was added to [0, "x"] and then "x" removed from between the two.
C27_Witness ==
  /\ Len(emitted) = 2
  /\ emitted[1].id = Num(3)
  /\ emitted[1].before = <<Num(0), Str(Ex)>>
  /\ emitted[1].after = <<Num(0), Str(Ex), Num(3)>>
  /\ emitted[2].id = Str(Ex)
  /\ favorites = <<Num(0), Num(3)>>

(***************************************************************************)
(* Properties of the quiz: onComplete.                                     *)
(***************************************************************************)
\* The button of the feedback screen is pressed.
ConfirmationPressed ==
  /\ quizMounted /\ show /\ ~isLoading /\ apiError = ""
  /\ ~show'
  /\ closedBy' = "handleCloseAndSave"

\* The tags held are those of a 2xx reply with a JSON body to the latest
\* submission.
HoldsTagsOfLatest ==
  /\ submissions > 0
  /\ replied.settled /\ replied.arrives /\ replied.ok /\ replied.parses
  /\ replied.data.t = "object"
  /\ replied.data.tags.t = "object"
  /\ apiResponse = replied.data.tags

\* The overlay or the close button is pressed.
OverlayPressed == show /\ ~show' /\ closedBy' = "onClose"

\* C29: onComplete is called only by the confirmation button, and with the
\* tags of a successful reply to the latest submission; closing the modal by
\* the overlay or the close button never calls it, whatever the modal
\* shows; and a new submission leaves the modal holding no tags.
C29_OnCompleteOnlyOnConfirmation ==
  /\ [][completed' # completed
          => /\ ConfirmationPressed
             /\ HoldsTagsOfLatest
             /\ completed' = completed \cup {[submission |-> submissions,
                                               data |-> replied.data.tags]}]_vars
  /\ [][OverlayPressed => completed' = completed]_vars
  /\ [][submissions' # submissions
          => (apiResponse' = NoTags /\ \A call \in completed' : call.submission < submissions')]_vars

\* The first submission got a reply without tags; the tags of the second
\* were confirmed, and the modal, opened again on the feedback screen, was
\* closed by the overlay: onComplete has been called once.
C29_Witness ==
  /\ quizMounted /\ ~show
  /\ submissions = 2
  /\ closedBy = "onClose"
  /\ isTruthy(apiResponse)
  /\ completed = {[submission |-> 2, data |-> WellFormedData.tags]}

(***************************************************************************)
(* Properties of the quiz: the request.                                    *)
(***************************************************************************)
Outstanding == request.sent

\* C30: at most one tag request is outstanding: the form with the submit
\* button is not shown while one is, and a submission starts only when none
\* is; isLoading of the mounted modal is true exactly while a request is
\* outstanding; and once the request has settled, with whatever reply,
\* isLoading is false again.
C30_OneRequestAndLoading ==
  /\ [](quizMounted => (isLoading <=> Outstanding))
  /\ [](Outstanding => screen # "form")
  /\ [][submissions' # submissions => (~Outstanding /\ Outstanding')]_vars
  /\ [][(Outstanding /\ replied' # replied /\ replied'.settled) => ~isLoading']_vars
  /\ ((quizMounted /\ isLoading) ~> (~isLoading \/ ~quizMounted))

\* The second submission was made after the first had settled, and its
\* request failed: isLoading is false and the error is shown.
C30_Witness ==
  /\ quizMounted /\ show
  /\ submissions = 2
  /\ replied = NetworkFailure
  /\ ~Outstanding
  /\ ~isLoading
  /\ screen = "error"

====
